---- MODULE Spec2Model ----
(***************************************************************************)
(* A model of tedi, a test engine with dependency injection for Go.        *)
(*                                                                         *)
(* The engine (type Tedi) collects labels, fixtures, hooks and tests       *)
(* during TestMain, then the host runner (testing.M) runs every registered *)
(* test through Tedi.wrapTest: build a dig container, run the before       *)
(* hooks, the body, and (deferred) the after hooks.                        *)
(***************************************************************************)
EXTENDS Integers, Sequences, FiniteSets, TLC

VARIABLES
    mode,        \* position of TestMain: "reg" (registering), "run" (m.Run), "crashed"
    main,        \* the statements of TestMain still to execute (scripted programs)
    ncalls,      \* number of registration calls made so far
    call,        \* the last registration call: [op, fn, labels]
    ret,         \* what the last registration call returned
    runLabels,   \* Tedi.runLabels (the -labels flag, split at ",")
    labels,      \* Tedi.labels (declared with TestLabel)
    fixtures,    \* Tedi.fixtures: the providers, in registration order
    beforeArr,   \* backing array of Tedi.beforeTests (all cap slots)
    beforeLen,   \* len(Tedi.beforeTests)
    afterArr,    \* backing array of Tedi.afterTests
    afterLen,    \* len(Tedi.afterTests)
    mTests,      \* testing.M.tests: what addTest appended
    warned,      \* Tedi.Run printed its warning
    stacks,      \* per registered test: the running test and its sub-tests, innermost last
    results,     \* per registered test: "none" | "pass" | "fail" | "skip"
    onceSt,      \* per provider: the sync.Once and the result captured by Once
    nexec,       \* per provider: how often the underlying body has been executed
    parallel,    \* the host runs the top-level tests concurrently (t.Parallel)
    parseResult, \* what the generator's Parse works on: [comments, functions, autoLabel]
    res          \* the generator's ParseResult under construction, with Parse's position

vars == <<mode, main, ncalls, call, ret, runLabels, labels, fixtures, beforeArr,
          beforeLen, afterArr, afterLen, mTests, warned, stacks, results, onceSt,
          nexec, parallel, parseResult, res>>

regVars == <<runLabels, labels, fixtures, beforeArr, beforeLen, afterArr, afterLen,
             mTests, warned>>
runVars == <<stacks, results, onceSt, nexec>>

(***************************************************************************)
(* Bounds.                                                                 *)
(***************************************************************************)
\* engine-level hooks registered per list
MaxHooks == 3
\* registration calls of a free-form TestMain (SpecReg)
MaxCalls == 4

(***************************************************************************)
(* The universe: labels, types and the functions of the test package.      *)
(* Types: "TT" is *testing.T, "T" is *tedi.T, "TB" is testing.TB,          *)
(* "A", "B" and "C" are *A, *B and *PrePostCounter of tedi_test.go.        *)
(* subA, subB and subCounter are the closures tedi_test.go gives to t.Run; *)
(* testCounterWithSub, testAddsHooks and subPlain are further tests a      *)
(* package may register: a test that takes the counter and runs a sub-test *)
(* taking it too, and a test that adds hooks of its own before it runs a   *)
(* sub-test.                                                               *)
(***************************************************************************)
Labels == {"unit", "integration"}

\* reflect.Type.Implements(testingTB)
ImplementsTB(ty) == ty \in {"TT", "T", "TB"}

\* Values handed to Fixture / OnceFixture: [fn |-> name, once |-> wrapped by Once]
Val(fn) == [fn |-> fn, once |-> FALSE]

\* reflect kind of a value; "Invalid" is the untyped nil interface
KindOf(v) ==
    CASE v.fn = "nil" -> "Invalid"
      [] v.fn = "notFunc" -> "Struct"
      [] v.fn = "ErrFixtureMustBeFunction" -> "Ptr"
      [] OTHER -> "Func"

\* result types of a function (reflect.Type.Out)
FnOut(fn) ==
    CASE fn = "fixtureProvideA" -> <<"A">>
      [] fn = "onceFixtureProvideB" -> <<"B">>
      [] fn = "fixturePrePostCounter" -> <<"C">>
      [] fn = "fixtureTestingT" -> <<"TT">>
      [] fn = "fixtureHandlePair" -> <<"A", "T">>
      [] fn = "fixtureAFromB" -> <<"A">>
      [] fn = "fixtureBFromA" -> <<"B">>
      [] OTHER -> <<>>

\* parameter types of a function (reflect.Type.In)
FnIn(fn) ==
    CASE fn = "fixturePrePostCounter" -> <<"T">>
      [] fn = "fixtureAFromB" -> <<"B">>
      [] fn = "fixtureBFromA" -> <<"A">>
      [] fn = "testFixture" -> <<"TT", "A">>
      [] fn = "testFixtureRenewed" -> <<"T">>
      [] fn = "testOnceFixture" -> <<"T">>
      [] fn = "testInternalBeforeAndAfterTest" -> <<"T", "C">>
      [] fn = "testInternalAfterTestCalledOnFailedTest" -> <<"T">>
      [] fn = "testExternalBeforeAndAfterTest" -> <<"T">>
      [] fn = "testCounterWithSub" -> <<"T", "C">>
      [] fn = "testAddsHooks" -> <<"T">>
      [] fn = "subA" -> <<"A">>
      [] fn = "subB" -> <<"B">>
      [] fn = "subCounter" -> <<"T", "C">>
      [] fn = "subPlain" -> <<"T">>
      [] OTHER -> <<>>

(***************************************************************************)
(* stringSet (set.go).  A nil map and an empty map are both the empty set. *)
(***************************************************************************)
Has(s, str) == str \in s

Add(s, strs) == s \cup strs

newStringSet(strs) == Add({}, strs)

Intersect(s, b) ==
    IF s = {} \/ b = {} THEN {} ELSE {k \in s : Has(b, k)}

\* stringSet.List: the keys in map iteration order, which Go leaves unspecified
Lists(s) ==
    {q \in UNION {[1..n -> s] : n \in {Cardinality(s)}} :
        \A i, j \in 1..Len(q) : i # j => q[i] # q[j]}

ToSet(q) == {q[i] : i \in 1..Len(q)}

(***************************************************************************)
(* Slices of hooks.  Tedi.beforeTests and Tedi.afterTests are Go slices: a *)
(* backing array of cap slots of which the first len are the elements.     *)
(***************************************************************************)
NoHook == [own |-> <<>>, kind |-> "none", id |-> 0]

\* an engine-level hook: the id-th function given to Tedi.BeforeTest / AfterTest
EngHook(kind, id) == [own |-> <<>>, kind |-> kind, id |-> id]

Pad(n) == [i \in 1..n |-> NoHook]

\* the capacity append gives a full slice of capacity c (runtime.growslice)
GrowCap(c) == IF c = 0 THEN 1 ELSE 2 * c

\* append(arr[:len], h) on the engine's own slice
AppendArr(arr, len, h) ==
    IF len < Len(arr)
    THEN [arr EXCEPT ![len + 1] = h]
    ELSE SubSeq(arr, 1, len) \o <<h>> \o Pad(GrowCap(Len(arr)) - len - 1)

(***************************************************************************)
(* Registration: the calls TestMain makes on the engine before Run.        *)
(***************************************************************************)
\* the -labels flag after strings.Split(_tediTestLabels, ",")
Flags == {<<"unit">>, <<"integration">>, <<"unit", "integration">>}

\* bookkeeping of the call just made and of what it returned
Called(op, fn, ls, r) ==
    /\ call' = [op |-> op, fn |-> fn, labels |-> ls]
    /\ ret' = r
    /\ ncalls' = ncalls + 1

\* Tedi.TestLabel
TestLabel(name) ==
    /\ mode = "reg"
    /\ labels' = Add(labels, {name})
    /\ Called("TestLabel", name, <<>>, "none")
    /\ UNCHANGED <<mode, runLabels, fixtures, beforeArr, beforeLen, afterArr,
                   afterLen, mTests, warned, runVars, parallel, parseResult, res>>

\* what Tedi.Fixture returns for the value it is given; "panic" is the nil
\* dereference of fnType.Kind() when reflect.TypeOf(fn) is nil
FixtureReturn(v) ==
    IF KindOf(v) = "Invalid" THEN "panic"
    ELSE IF KindOf(v) # "Func" THEN "ErrFixtureMustBeFunction"
    ELSE IF \E i \in 1..Len(FnOut(v.fn)) : ImplementsTB(FnOut(v.fn)[i])
         THEN "ErrFixtureCannotProduceTestingTB"
    ELSE "nil"

\* Once: a function of the same type that calls fn once; for a non-function
\* (reflect.ValueOf(fn).Kind() # Func, nil included) the error value itself
Once(v) ==
    IF KindOf(v) # "Func" THEN Val("ErrFixtureMustBeFunction")
    ELSE [v EXCEPT !.once = TRUE]

\* the body of Tedi.Fixture on value v, reached through call op(arg)
RegisterFixture(op, arg, v) ==
    LET r == FixtureReturn(v) IN
    /\ mode = "reg"
    /\ fixtures' = IF r = "nil" THEN Append(fixtures, v) ELSE fixtures
    /\ onceSt' = IF r = "nil"
                 THEN Append(onceSt, [st |-> "idle", res |-> <<>>])
                 ELSE onceSt
    /\ nexec' = IF r = "nil" THEN Append(nexec, 0) ELSE nexec
    /\ mode' = IF r = "panic" THEN "crashed" ELSE mode
    /\ Called(op, arg, <<>>, r)
    /\ UNCHANGED <<runLabels, labels, beforeArr, beforeLen, afterArr, afterLen,
                   mTests, warned, stacks, results, parallel, parseResult, res>>

\* Tedi.Fixture
Fixture(fn) == RegisterFixture("Fixture", fn, Val(fn))

\* Tedi.OnceFixture
OnceFixture(fn) == RegisterFixture("OnceFixture", fn, Once(Val(fn)))

\* Tedi.BeforeTest
BeforeTest(h) ==
    /\ mode = "reg"
    /\ beforeArr' = AppendArr(beforeArr, beforeLen, h)
    /\ beforeLen' = beforeLen + 1
    /\ Called("BeforeTest", "", <<>>, "none")
    /\ UNCHANGED <<mode, runLabels, labels, fixtures, afterArr, afterLen, mTests,
                   warned, runVars, parallel, parseResult, res>>

\* Tedi.AfterTest
AfterTest(h) ==
    /\ mode = "reg"
    /\ afterArr' = AppendArr(afterArr, afterLen, h)
    /\ afterLen' = afterLen + 1
    /\ Called("AfterTest", "", <<>>, "none")
    /\ UNCHANGED <<mode, runLabels, labels, fixtures, beforeArr, beforeLen, mTests,
                   warned, runVars, parallel, parseResult, res>>

\* the labels Tedi.Test hands to wrapTest: those of the test that are declared
\* and requested (variant for comparison: without the second Intersect)
MatchedLabelsIgnoringRun(ls) ==
    Intersect(newStringSet(ToSet(ls)), labels)
MatchedLabels(ls) ==
    Intersect(Intersect(newStringSet(ToSet(ls)), labels), runLabels)

\* Tedi.Test (with addTest): the test is named after its function
\* (variant for comparison: a Test that registers whatever the labels)
TestWithoutSelection(fn, ls) ==
    /\ mode = "reg"
    /\ mTests' = Append(mTests, [name |-> fn, fn |-> fn, labels |-> ls])
    /\ Called("Test", fn, ls, "none")
    /\ UNCHANGED <<mode, runLabels, labels, fixtures, beforeArr, beforeLen, afterArr,
                   afterLen, warned, runVars, parallel, parseResult, res>>
Test(fn, ls) ==
    LET matchedLabels == MatchedLabels(ls) IN
    /\ mode = "reg"
    /\ IF Cardinality(matchedLabels) > 0
       THEN \E l \in Lists(matchedLabels) :
               mTests' = Append(mTests, [name |-> fn, fn |-> fn, labels |-> l])
       ELSE mTests' = mTests
    /\ Called("Test", fn, ls, "none")
    /\ UNCHANGED <<mode, runLabels, labels, fixtures, beforeArr, beforeLen, afterArr,
                   afterLen, warned, runVars, parallel, parseResult, res>>

\* Tedi.Run: warn when no requested label is declared, then m.Run()
\* (variant for comparison: a Run that warns when no test is registered)
RunWarnsOnNoTests ==
    /\ mode = "reg"
    /\ warned' = (mTests = <<>>)
    /\ mode' = "run"
    /\ stacks' = [i \in 1..Len(mTests) |-> <<>>]
    /\ results' = [i \in 1..Len(mTests) |-> "none"]
    /\ Called("Run", "", <<>>, "none")
    /\ UNCHANGED <<runLabels, labels, fixtures, beforeArr, beforeLen, afterArr,
                   afterLen, mTests, onceSt, nexec, parallel, parseResult, res>>
Run ==
    /\ mode = "reg"
    /\ warned' = (Cardinality(Intersect(runLabels, labels)) = 0)
    /\ mode' = "run"
    /\ stacks' = [i \in 1..Len(mTests) |-> <<>>]
    /\ results' = [i \in 1..Len(mTests) |-> "none"]
    /\ Called("Run", "", <<>>, "none")
    /\ UNCHANGED <<runLabels, labels, fixtures, beforeArr, beforeLen, afterArr,
                   afterLen, mTests, onceSt, nexec, parallel, parseResult, res>>

\* the engine after New(m): nothing declared, nothing registered
InitEngine ==
    /\ mode = "reg"
    /\ ncalls = 0
    /\ call = [op |-> "New", fn |-> "", labels |-> <<>>]
    /\ ret = "none"
    /\ \E flag \in Flags : runLabels = newStringSet(ToSet(flag))
    /\ labels = {}
    /\ fixtures = <<>>
    /\ beforeArr = <<>>
    /\ beforeLen = 0
    /\ afterArr = <<>>
    /\ afterLen = 0
    /\ mTests = <<>>
    /\ warned = FALSE
    /\ stacks = <<>>
    /\ results = <<>>
    /\ onceSt = <<>>
    /\ nexec = <<>>

(***************************************************************************)
(* The dig container of one test: providers, resolved values, Invoke.      *)
(***************************************************************************)
\* the types a container resolves from the values createContainer provides
\* itself: func() *testing.T and func() *T
SeedTypes == {"TT", "T"}

\* the types fixtures of the test package produce
FixtureTypes == {"A", "B", "C"}

NoVal == <<>>

\* the constructors that provide a parameter of constructor i
DependsOn(fxs, i) ==
    {j \in 1..Len(fxs) : ToSet(FnIn(fxs[i].fn)) \cap ToSet(FnOut(fxs[j].fn)) # {}}

\* the constructors reached from those of set S along at most n dependencies
RECURSIVE Reach(_, _, _)
Reach(fxs, S, n) ==
    IF n = 0 THEN S
    ELSE Reach(fxs, S \cup UNION {DependsOn(fxs, i) : i \in S}, n - 1)

\* the constructors that depend, directly or not, on themselves
OnCycle(fxs) ==
    {i \in 1..Len(fxs) : i \in Reach(fxs, DependsOn(fxs, i), Len(fxs))}

\* dig.Container.Provide fails in createContainer: a constructor without a
\* result, a type that an earlier constructor already provides, or a
\* constructor that closes a dependency cycle
BuildError(fxs) ==
    \/ \E i \in 1..Len(fxs) : FnOut(fxs[i].fn) = <<>>
    \/ \E i, j \in 1..Len(fxs) :
          i < j /\ ToSet(FnOut(fxs[i].fn)) \cap ToSet(FnOut(fxs[j].fn)) # {}
    \/ OnCycle(fxs) # {}

\* the provider of a type in a built container (0: none)
ProviderOf(ty) ==
    IF \E i \in 1..Len(fixtures) : ty \in ToSet(FnOut(fixtures[i].fn))
    THEN CHOOSE i \in 1..Len(fixtures) : ty \in ToSet(FnOut(fixtures[i].fn))
    ELSE 0

(***************************************************************************)
(* Hooks held by a test handle.                                            *)
(***************************************************************************)
\* a hook added through a handle: a closure of the test with handle `own`
DynHook(own, kind, id) == [own |-> own, kind |-> kind, id |-> id]

\* parameter types of a hook: the first engine-level hook of either list is
\* func(t *testing.T), the later ones ask for the counter with
\* func(t *T, cnt *PrePostCounter); hooks added through a handle are func(t *T)
HookIn(h) ==
    IF h.own = <<>>
    THEN IF h.id > 1 THEN <<"T", "C">> ELSE <<"TT">>
    ELSE <<"T">>

\* a handle's slice: it shares the engine's backing array (sh) or has its own
SharedSlice(len) == [sh |-> TRUE, len |-> len, priv |-> <<>>]

\* s[idx], 1-based
At(s, arr, idx) == IF s.sh THEN arr[idx] ELSE s.priv[idx]

Elems(s, arr) == IF s.sh THEN SubSeq(arr, 1, s.len) ELSE SubSeq(s.priv, 1, s.len)

\* append(s, h) on a handle's slice: [s |-> the new slice, arr |-> the engine's array]
AppendSlice(s, arr, h) ==
    IF s.sh
    THEN IF s.len < Len(arr)
         THEN [s |-> [s EXCEPT !.len = s.len + 1],
               arr |-> [arr EXCEPT ![s.len + 1] = h]]
         ELSE [s |-> [sh |-> FALSE, len |-> s.len + 1,
                      priv |-> SubSeq(arr, 1, s.len) \o <<h>>
                               \o Pad(GrowCap(Len(arr)) - s.len - 1)],
               arr |-> arr]
    ELSE IF s.len < Len(s.priv)
         THEN [s |-> [s EXCEPT !.len = s.len + 1, !.priv[s.len + 1] = h],
               arr |-> arr]
         ELSE [s |-> [s EXCEPT !.len = s.len + 1,
                               !.priv = s.priv \o <<h>>
                                        \o Pad(GrowCap(Len(s.priv)) - s.len - 1)],
               arr |-> arr]

(***************************************************************************)
(* Test functions: what a body does with its handle.                       *)
(***************************************************************************)
Stmt(op, fn) == [op |-> op, fn |-> fn]

\* the calls a body makes on its handle, in order
Script(fn) ==
    CASE fn = "testFixtureRenewed" -> <<Stmt("Run", "subA"), Stmt("Run", "subA")>>
      [] fn = "testOnceFixture" -> <<Stmt("Run", "subB"), Stmt("Run", "subB")>>
      [] fn = "testInternalAfterTestCalledOnFailedTest" -> <<Stmt("Run", "subCounter")>>
      [] fn = "testCounterWithSub" -> <<Stmt("Run", "subCounter")>>
      [] fn = "testAddsHooks" -> <<Stmt("BeforeTest", ""), Stmt("AfterTest", ""),
                                   Stmt("Run", "subPlain")>>
      [] OTHER -> <<>>

\* how a body ends: it returns ("ok"), returns after t.Fail ("fail"), or
\* leaves through runtime.Goexit: t.FailNow ("abort"), t.Skip ("skip")
Outcomes == {"ok", "fail", "abort", "skip"}

\* how a hook ends: dig's Invoke returns nil or an error
HookOutcomes == {"ok", "err"}

(***************************************************************************)
(* Frames: one per running test or sub-test.                               *)
(***************************************************************************)
Ev(ev, hook, fn, val, out) ==
    [ev |-> ev, hook |-> hook, fn |-> fn, val |-> val, out |-> out]

\* an entry of a frame's stack of dig calls: the function Invoke was given
\* (role "hook" or "body") and the constructors being called for it ("fix")
CallOf(role, hook, p) == [role |-> role, hook |-> hook, p |-> p, in |-> FALSE]

\* Tedi.createT: the handle's hook lists are the engine's slices
createT(path, fn, ls) ==
    [path |-> path, fn |-> fn, labels |-> ls, built |-> TRUE,
     pc |-> "start", running |-> FALSE,
     bt |-> SharedSlice(beforeLen),
     at |-> SharedSlice(afterLen),
     i |-> 1, n |-> beforeLen,
     cache |-> [ty \in FixtureTypes |-> NoVal],
     calls |-> <<>>, ip |-> 0, nsub |-> 0, out |-> "",
     failed |-> FALSE, skipped |-> FALSE, ended |-> FALSE,
     log |-> <<>>, subgot |-> <<>>]

\* Tedi.createContainer and the first lines of wrapTest: a test whose
\* container cannot be built fails at once; otherwise onStart begins
createContainer(path, fn, ls) ==
    IF BuildError(fixtures)
    THEN [createT(path, fn, ls) EXCEPT !.built = FALSE, !.pc = "done",
                                       !.failed = TRUE, !.n = 0,
                                       !.bt = SharedSlice(0), !.at = SharedSlice(0)]
    ELSE createT(path, fn, ls)

Top(k) == stacks[k][Len(stacks[k])]

SetTop(k, F) == stacks' = [stacks EXCEPT ![k][Len(stacks[k])] = F]

\* the host runner lets test k run: all of them when parallel, else in order
Sched(k) ==
    /\ mode = "run"
    /\ k \in 1..Len(mTests)
    /\ parallel \/ \A j \in 1..(k - 1) : results[j] # "none"

Active(k) == Sched(k) /\ stacks[k] # <<>>

\* parameter types of the function of a call entry
ParamsOf(F, c) ==
    CASE c.role = "hook" -> HookIn(c.hook)
      [] c.role = "body" -> FnIn(F.fn)
      [] OTHER -> FnIn(fixtures[c.p].fn)

\* the parameter types of a call that the container has not resolved yet
Missing(F, c) ==
    {j \in 1..Len(ParamsOf(F, c)) :
        /\ ParamsOf(F, c)[j] \notin SeedTypes
        /\ F.cache[ParamsOf(F, c)[j]] = NoVal}

Ready(F, c) == Missing(F, c) = {}

\* the value the container passes for a parameter type
ValueOf(F, ty) ==
    IF ty \in SeedTypes THEN <<ty, F.path>> ELSE F.cache[ty]

ArgsOf(F, c) == [j \in 1..Len(ParamsOf(F, c)) |-> ValueOf(F, ParamsOf(F, c)[j])]

\* require.NoError fails in wrapTest: before the defer is set the test just
\* ends (FailNow), from the body on the deferred onEnd still runs
\* (two variants for comparison: an onStart, and an onEnd, that goes on with
\* the next hook after a failed one)
FailFrameKeepsStarting(F) ==
    IF F.pc = "start"
    THEN [F EXCEPT !.failed = TRUE, !.calls = <<>>, !.i = F.i + 1]
    ELSE IF F.pc = "body"
    THEN [F EXCEPT !.failed = TRUE, !.calls = <<>>, !.pc = "end", !.ended = TRUE,
                   !.i = 1, !.n = F.at.len]
    ELSE [F EXCEPT !.failed = TRUE, !.calls = <<>>, !.pc = "done"]
FailFrameKeepsEnding(F) ==
    IF F.pc = "end"
    THEN [F EXCEPT !.failed = TRUE, !.calls = <<>>, !.i = F.i + 1]
    ELSE IF F.pc = "body"
    THEN [F EXCEPT !.failed = TRUE, !.calls = <<>>, !.pc = "end", !.ended = TRUE,
                   !.i = 1, !.n = F.at.len]
    ELSE [F EXCEPT !.failed = TRUE, !.calls = <<>>, !.pc = "done"]
FailFrame(F) ==
    IF F.pc = "body"
    THEN [F EXCEPT !.failed = TRUE, !.calls = <<>>, !.pc = "end", !.ended = TRUE,
                   !.i = 1, !.n = F.at.len]
    ELSE [F EXCEPT !.failed = TRUE, !.calls = <<>>, !.pc = "done"]

(***************************************************************************)
(* wrapTest, step by step.                                                 *)
(***************************************************************************)
\* the host runner calls the wrapped test k
StartTest(k) ==
    /\ Sched(k)
    /\ results[k] = "none"
    /\ stacks[k] = <<>>
    /\ stacks' = [stacks EXCEPT
                    ![k] = <<createContainer(<<k>>, mTests[k].fn, mTests[k].labels)>>]
    /\ UNCHANGED <<mode, main, ncalls, call, ret, regVars, results, onceSt, nexec, parallel, parseResult, res>>

\* T.onStart: the next element of the range over t.beforeTests is invoked
BeginBefore(k) ==
    /\ Active(k)
    /\ LET F == Top(k) IN
       /\ F.pc = "start" /\ F.calls = <<>> /\ F.i <= F.n
       /\ SetTop(k, [F EXCEPT !.calls = <<CallOf("hook", At(F.bt, beforeArr, F.i), 0)>>])
    /\ UNCHANGED <<mode, main, ncalls, call, ret, regVars, results, onceSt, nexec, parallel, parseResult, res>>

\* wrapTest after onStart returned nil: running is set, onEnd is deferred and
\* the body is invoked through the container
BeginBody(k) ==
    /\ Active(k)
    /\ LET F == Top(k) IN
       /\ F.pc = "start" /\ F.calls = <<>> /\ F.i > F.n
       /\ SetTop(k, [F EXCEPT !.running = TRUE, !.pc = "body",
                              !.calls = <<CallOf("body", NoHook, 0)>>])
    /\ UNCHANGED <<mode, main, ncalls, call, ret, regVars, results, onceSt, nexec, parallel, parseResult, res>>

\* dig resolves a parameter that is not in the container yet: it calls the
\* constructor providing it, or Invoke fails for want of one
Resolve(k) ==
    /\ Active(k)
    /\ LET F == Top(k) IN
       /\ F.calls # <<>>
       /\ ~Ready(F, F.calls[Len(F.calls)])
       /\ LET c == F.calls[Len(F.calls)]
              j == CHOOSE m \in Missing(F, c) : \A o \in Missing(F, c) : m <= o
              p == ProviderOf(ParamsOf(F, c)[j])
          IN IF p = 0
             THEN SetTop(k, FailFrame([F EXCEPT !.log = Append(@,
                                 Ev("missing", c.hook, "", <<>>, F.pc))]))
             ELSE SetTop(k, [F EXCEPT !.calls = Append(F.calls, CallOf("fix", NoHook, p))])
    /\ UNCHANGED <<mode, main, ncalls, call, ret, regVars, results, onceSt, nexec, parallel, parseResult, res>>

\* the handle, with the engine's two backing arrays it may write to
HS(F, b, a) == [F |-> F, b |-> b, a |-> a]

\* T.BeforeTest: invoked in place when the test is running, else appended
\* (variant for comparison: a BeforeTest that appends whatever the state)
TBeforeTestQueued(S, h) ==
    LET r == AppendSlice(S.F.bt, S.b, h)
    IN [S EXCEPT !.F.bt = r.s, !.b = r.arr]
TBeforeTest(S, h) ==
    IF S.F.running
    THEN [S EXCEPT !.F.log = Append(@, Ev("now", h, "", <<>>, "ok"))]
    ELSE LET r == AppendSlice(S.F.bt, S.b, h)
         IN [S EXCEPT !.F.bt = r.s, !.b = r.arr]

\* T.AfterTest: appended
TAfterTest(S, h) ==
    LET r == AppendSlice(S.F.at, S.a, h)
    IN [S EXCEPT !.F.at = r.s, !.a = r.arr]

\* what a fixture's body does with the handle it was given:
\* fixturePrePostCounter adds a before and an after hook
FixtureEffects(S, fn) ==
    IF fn = "fixturePrePostCounter"
    THEN TAfterTest(TBeforeTest(S, DynHook(S.F.path, "before", 0)),
                    DynHook(S.F.path, "after", 0))
    ELSE S

\* the container keeps what a constructor returned, one value per result type
Store(F, fn, v) ==
    [F EXCEPT !.cache = [ty \in FixtureTypes |->
                            IF ty \in ToSet(FnOut(fn)) THEN v ELSE F.cache[ty]]]

Pop(F) == [F EXCEPT !.calls = SubSeq(F.calls, 1, Len(F.calls) - 1)]

\* dig calls an ordinary fixture whose parameters are resolved
CallFixture(k) ==
    /\ Active(k)
    /\ LET F == Top(k) IN
       /\ F.calls # <<>>
       /\ LET c == F.calls[Len(F.calls)] IN
          /\ c.role = "fix" /\ Ready(F, c) /\ ~fixtures[c.p].once
          /\ LET fn == fixtures[c.p].fn
                 v == <<fn, nexec[c.p] + 1>>
                 G == [F EXCEPT !.log = Append(@, Ev("fixture", NoHook, fn, v, "ok"))]
                 S == FixtureEffects(HS(G, beforeArr, afterArr), fn)
             IN /\ SetTop(k, Pop(Store(S.F, fn, v)))
                /\ beforeArr' = S.b
                /\ afterArr' = S.a
                /\ nexec' = [nexec EXCEPT ![c.p] = @ + 1]
    /\ UNCHANGED <<mode, main, ncalls, call, ret, runLabels, labels, fixtures, beforeLen,
                   afterLen, mTests, warned, results, onceSt, parallel, parseResult, res>>

\* sync.Once.Do lets a caller run the function: not done, and nobody in it
\* (variant for comparison: a done flag tested without the mutex)
OnceMayEnterUnlocked(p) == onceSt[p].st # "done"
OnceMayEnter(p) == onceSt[p].st = "idle"

\* dig calls a Once wrapper: o.Do enters the function
OnceEnter(k) ==
    /\ Active(k)
    /\ LET F == Top(k) IN
       /\ F.calls # <<>>
       /\ LET c == F.calls[Len(F.calls)] IN
          /\ c.role = "fix" /\ Ready(F, c) /\ fixtures[c.p].once /\ ~c.in
          /\ OnceMayEnter(c.p)
          /\ onceSt' = [onceSt EXCEPT ![c.p].st = "busy"]
          /\ SetTop(k, [F EXCEPT !.calls[Len(F.calls)].in = TRUE])
    /\ UNCHANGED <<mode, main, ncalls, call, ret, regVars, results, nexec, parallel, parseResult, res>>

\* inside o.Do: res = fnValue.Call(args); then the wrapper returns res
OnceBody(k) ==
    /\ Active(k)
    /\ LET F == Top(k) IN
       /\ F.calls # <<>>
       /\ LET c == F.calls[Len(F.calls)] IN
          /\ c.role = "fix" /\ c.in
          /\ LET fn == fixtures[c.p].fn
                 v == <<fn, nexec[c.p] + 1>>
                 G == [F EXCEPT !.log = Append(@, Ev("fixture", NoHook, fn, v, "ok"))]
             IN /\ SetTop(k, Pop(Store(G, fn, v)))
                /\ onceSt' = [onceSt EXCEPT ![c.p] = [st |-> "done", res |-> v]]
                /\ nexec' = [nexec EXCEPT ![c.p] = @ + 1]
    /\ UNCHANGED <<mode, main, ncalls, call, ret, regVars, results, parallel, parseResult, res>>

\* o.Do finds the function done: the wrapper returns the captured res
OnceCached(k) ==
    /\ Active(k)
    /\ LET F == Top(k) IN
       /\ F.calls # <<>>
       /\ LET c == F.calls[Len(F.calls)] IN
          /\ c.role = "fix" /\ Ready(F, c) /\ fixtures[c.p].once /\ ~c.in
          /\ onceSt[c.p].st = "done"
          /\ SetTop(k, Pop(Store(F, fixtures[c.p].fn, onceSt[c.p].res)))
    /\ UNCHANGED <<mode, main, ncalls, call, ret, regVars, results, onceSt, nexec, parallel, parseResult, res>>

\* a hook returned nil to onStart / onEnd: the loop goes on (variant for
\* comparison: a container that forgets its values between two Invokes)
HookReturnedDropCache(F) ==
    [F EXCEPT !.calls = <<>>, !.i = F.i + 1,
              !.cache = [ty \in FixtureTypes |-> NoVal]]
HookReturned(F) == [F EXCEPT !.calls = <<>>, !.i = F.i + 1]

\* dig calls a hook of onStart or onEnd whose parameters are resolved
CallHook(k, out) ==
    /\ Active(k)
    /\ LET F == Top(k) IN
       /\ F.calls # <<>>
       /\ LET c == F.calls[Len(F.calls)]
              G == [F EXCEPT !.log = Append(@,
                       Ev(IF F.pc = "start" THEN "before" ELSE "after",
                          c.hook, "", ArgsOf(F, c), out))]
          IN /\ c.role = "hook" /\ Ready(F, c)
             /\ SetTop(k, IF out = "ok" THEN HookReturned(G) ELSE FailFrame(G))
    /\ UNCHANGED <<mode, main, ncalls, call, ret, regVars, results, onceSt, nexec, parallel, parseResult, res>>

\* dig calls the test function with its resolved arguments
EnterBody(k) ==
    /\ Active(k)
    /\ LET F == Top(k) IN
       /\ F.calls # <<>>
       /\ LET c == F.calls[Len(F.calls)] IN
          /\ c.role = "body" /\ Ready(F, c)
          /\ SetTop(k, [F EXCEPT !.pc = "inbody", !.ip = 1, !.calls = <<>>,
                                 !.log = Append(@, Ev("body", NoHook, F.fn,
                                                      ArgsOf(F, c), ""))])
    /\ UNCHANGED <<mode, main, ncalls, call, ret, regVars, results, onceSt, nexec, parallel, parseResult, res>>

InBody(F) == F.pc = "inbody" /\ F.calls = <<>>

\* the hook lists and labels T.Run starts a sub-test from: Run goes through
\* Tedi.wrapTest, so the lists are the engine's and the container is new
\* (variants for comparison: a sub-test handed the lists of its parent's
\* handle, and one resolving from its parent's container)
SubFrameFromParent(F, fn) ==
    [createContainer(F.path \o <<F.nsub + 1>>, fn, F.labels) EXCEPT
        !.bt = F.bt, !.at = F.at, !.n = F.bt.len]
SubFrameParentContainer(F, fn) ==
    [createContainer(F.path \o <<F.nsub + 1>>, fn, F.labels) EXCEPT !.cache = F.cache]
SubFrame(F, fn) == createContainer(F.path \o <<F.nsub + 1>>, fn, F.labels)

\* T.Run: the body starts a sub-test and waits for it
BodyRun(k) ==
    /\ Active(k)
    /\ LET F == Top(k) IN
       /\ InBody(F) /\ F.ip <= Len(Script(F.fn))
       /\ Script(F.fn)[F.ip].op = "Run"
       /\ stacks' = [stacks EXCEPT ![k] =
                       SubSeq(stacks[k], 1, Len(stacks[k]) - 1)
                       \o <<[F EXCEPT !.nsub = F.nsub + 1],
                            SubFrame(F, Script(F.fn)[F.ip].fn)>>]
    /\ UNCHANGED <<mode, main, ncalls, call, ret, regVars, results, onceSt, nexec, parallel, parseResult, res>>

\* the body calls t.BeforeTest or t.AfterTest with a closure of its own
BodyAddHook(k) ==
    /\ Active(k)
    /\ LET F == Top(k) IN
       /\ InBody(F) /\ F.ip <= Len(Script(F.fn))
       /\ Script(F.fn)[F.ip].op \in {"BeforeTest", "AfterTest"}
       /\ LET S0 == HS([F EXCEPT !.ip = F.ip + 1], beforeArr, afterArr)
              S == IF Script(F.fn)[F.ip].op = "BeforeTest"
                   THEN TBeforeTest(S0, DynHook(F.path, "before", F.ip))
                   ELSE TAfterTest(S0, DynHook(F.path, "after", F.ip))
          IN /\ SetTop(k, S.F)
             /\ beforeArr' = S.b
             /\ afterArr' = S.a
    /\ UNCHANGED <<mode, main, ncalls, call, ret, runLabels, labels, fixtures, beforeLen,
                   afterLen, mTests, warned, results, onceSt, nexec, parallel, parseResult, res>>

\* the body is over and the deferred function of wrapTest calls onEnd; without
\* the defer (the earlier wrapTest) onEnd is reached only when Invoke returned
LeaveBodyNoDefer(F, out) ==
    IF out \in {"ok", "fail"}
    THEN [F EXCEPT !.out = out, !.failed = F.failed \/ out = "fail",
                   !.pc = "end", !.ended = TRUE, !.i = 1, !.n = F.at.len]
    ELSE [F EXCEPT !.out = out, !.failed = F.failed \/ out = "abort",
                   !.skipped = (out = "skip"), !.pc = "done"]
LeaveBody(F, out) ==
    [F EXCEPT !.out = out,
              !.failed = F.failed \/ out \in {"fail", "abort"},
              !.skipped = (out = "skip"),
              !.pc = "end", !.ended = TRUE, !.i = 1, !.n = F.at.len]

\* the body ends: by returning once its script is done, or early by Goexit
BodyReturn(k, out) ==
    /\ Active(k)
    /\ LET F == Top(k) IN
       /\ InBody(F)
       /\ out \in {"ok", "fail"} => F.ip > Len(Script(F.fn))
       /\ SetTop(k, LeaveBody(F, out))
    /\ UNCHANGED <<mode, main, ncalls, call, ret, regVars, results, onceSt, nexec, parallel, parseResult, res>>

\* the 1-based index onEnd reads in iteration i (1-based) of its range:
\* t.afterTests[len(t.afterTests)-i-1] with the length of that moment
AfterIndex(F) == F.at.len - F.i + 1

\* T.onEnd: the next iteration of the range over t.afterTests invokes a hook
BeginAfter(k) ==
    /\ Active(k)
    /\ LET F == Top(k) IN
       /\ F.pc = "end" /\ F.calls = <<>> /\ F.i <= F.n
       /\ SetTop(k, [F EXCEPT !.calls =
                        <<CallOf("hook", At(F.at, afterArr, AfterIndex(F)), 0)>>])
    /\ UNCHANGED <<mode, main, ncalls, call, ret, regVars, results, onceSt, nexec, parallel, parseResult, res>>

\* onEnd returned nil: the wrapped test returns
EndTest(k) ==
    /\ Active(k)
    /\ LET F == Top(k) IN
       /\ F.pc = "end" /\ F.calls = <<>> /\ F.i > F.n
       /\ SetTop(k, [F EXCEPT !.pc = "done"])
    /\ UNCHANGED <<mode, main, ncalls, call, ret, regVars, results, onceSt, nexec, parallel, parseResult, res>>

\* what the host runner reports for a finished test
ResultOf(F) == IF F.failed THEN "fail" ELSE IF F.skipped THEN "skip" ELSE "pass"

\* the arguments the body of a finished test was called with (none: not called)
BodyArgs(F) ==
    IF \E e \in 1..Len(F.log) : F.log[e].ev = "body"
    THEN F.log[CHOOSE e \in 1..Len(F.log) : F.log[e].ev = "body"].val
    ELSE <<>>

\* a finished test returns to the host runner, a finished sub-test to the
\* body that ran it (t.Run returns; a failed sub-test fails its parent)
Return(k) ==
    /\ Active(k)
    /\ LET F == Top(k)
           d == Len(stacks[k])
       IN /\ F.pc = "done"
          /\ IF d = 1
             THEN /\ stacks' = [stacks EXCEPT ![k] = <<>>]
                  /\ results' = [results EXCEPT ![k] = ResultOf(F)]
             ELSE /\ stacks' = [stacks EXCEPT ![k] =
                       SubSeq(stacks[k], 1, d - 2)
                       \o <<[stacks[k][d - 1] EXCEPT
                              !.failed = @ \/ F.failed,
                              !.ip = @ + 1,
                              !.subgot = Append(@, [fn |-> F.fn, args |-> BodyArgs(F)])]>>]
                  /\ UNCHANGED results
    /\ UNCHANGED <<mode, main, ncalls, call, ret, regVars, onceSt, nexec, parallel, parseResult, res>>

(***************************************************************************)
(* Spec: TestMain programs in the order the generator emits the calls      *)
(* (labels, fixtures, before hooks, tests, after hooks, Run), and two      *)
(* written by hand that declare after their Test calls, run by the host    *)
(* one test after the other.                                               *)
(***************************************************************************)
MainStmt(op, fn, ls, h) == [op |-> op, fn |-> fn, labels |-> ls, hook |-> h]

LabelStmts ==
    <<MainStmt("TestLabel", "unit", <<>>, NoHook),
      MainStmt("TestLabel", "integration", <<>>, NoHook)>>

FixA == MainStmt("Fixture", "fixtureProvideA", <<>>, NoHook)
FixC == MainStmt("Fixture", "fixturePrePostCounter", <<>>, NoHook)
OnceB == MainStmt("OnceFixture", "onceFixtureProvideB", <<>>, NoHook)

\* two fixtures that need each other: func(*B) *A and func(*A) *B
FixAFromB == MainStmt("Fixture", "fixtureAFromB", <<>>, NoHook)
FixBFromA == MainStmt("Fixture", "fixtureBFromA", <<>>, NoHook)

\* the fixtures of tedi_test.go; without the counter fixture; with *A provided
\* twice; with *A and *B in a dependency cycle
FixtureLists ==
    {<<FixA, FixC, OnceB>>, <<FixA, OnceB>>, <<FixA, FixC, FixA>>,
     <<FixAFromB, FixBFromA, FixC>>}

HookStmts(op, kind, n) == [i \in 1..n |-> MainStmt(op, "", <<>>, EngHook(kind, i))]

TestFns == {"testFixture", "testFixtureRenewed", "testOnceFixture",
            "testInternalBeforeAndAfterTest",
            "testInternalAfterTestCalledOnFailedTest",
            "testCounterWithSub", "testAddsHooks"}

\* the labels TestMain gives each test
TestLabelsOf(fn) ==
    CASE fn = "testFixture" -> <<"integration">>
      [] fn = "testFixtureRenewed" -> <<"unit", "integration">>
      [] OTHER -> <<"unit">>

TestStmt(fn) == MainStmt("Test", fn, TestLabelsOf(fn), NoHook)

\* each test followed by testFixture, which only the integration label selects
TestLists == {<<TestStmt(fn), TestStmt("testFixture")>> : fn \in TestFns}

\* how many before and after hooks TestMain registers: hooks of one kind
\* only, or as many of one kind as of the other
HookPairs ==
    {hp \in (0..MaxHooks) \X (0..MaxHooks) : hp[1] = 0 \/ hp[2] = 0 \/ hp[1] = hp[2]}

\* generateFile: the calls of the TestMain it writes for a parse result, the
\* labels first, the after-hooks behind the tests, Run at the end
generateFile(parsed) ==
    parsed.TestLabels \o parsed.Fixtures \o parsed.OnceFixtures
    \o parsed.BeforeTests \o parsed.Tests \o parsed.AfterTests
    \o <<MainStmt("Run", "", <<>>, NoHook)>>

GeneratedPrograms ==
    {generateFile([TestLabels |-> LabelStmts,
                   Fixtures |-> SelectSeq(fx, LAMBDA st : st.op = "Fixture"),
                   OnceFixtures |-> SelectSeq(fx, LAMBDA st : st.op = "OnceFixture"),
                   BeforeTests |-> HookStmts("BeforeTest", "before", hp[1]),
                   Tests |-> ts,
                   AfterTests |-> HookStmts("AfterTest", "after", hp[2])]) :
        fx \in FixtureLists, hp \in HookPairs, ts \in TestLists}

\* a TestMain that calls Test first: the label of testFixture, the fixtures and
\* the hooks come after the Test calls
LatePrograms ==
    {<<LabelStmts[1], TestStmt(fn), TestStmt("testFixture"), LabelStmts[2],
       FixA, FixC, OnceB>>
        \o HookStmts("BeforeTest", "before", 1) \o HookStmts("AfterTest", "after", 1)
        \o <<MainStmt("Run", "", <<>>, NoHook)>> :
        fn \in {"testInternalBeforeAndAfterTest", "testAddsHooks"}}

Programs == GeneratedPrograms \cup LatePrograms

\* TestMain executes its next statement: one action per kind of call
MainIs(op) == main # <<>> /\ Head(main).op = op /\ main' = Tail(main)

MainTestLabel == MainIs("TestLabel") /\ TestLabel(Head(main).fn)

MainFixture == MainIs("Fixture") /\ Fixture(Head(main).fn)

MainOnceFixture == MainIs("OnceFixture") /\ OnceFixture(Head(main).fn)

MainBeforeTest == MainIs("BeforeTest") /\ BeforeTest(Head(main).hook)

MainAfterTest == MainIs("AfterTest") /\ AfterTest(Head(main).hook)

MainTest == MainIs("Test") /\ Test(Head(main).fn, Head(main).labels)

MainRun == MainIs("Run") /\ Run

\* the generator is not part of a test run
NoParse ==
    /\ parseResult = <<>>
    /\ res = <<>>

Init ==
    /\ InitEngine
    /\ main \in Programs
    /\ parallel = FALSE
    /\ NoParse

Next ==
    \/ MainTestLabel
    \/ MainFixture
    \/ MainOnceFixture
    \/ MainBeforeTest
    \/ MainAfterTest
    \/ MainTest
    \/ MainRun
    \/ \E k \in 1..Len(mTests) : StartTest(k)
    \/ \E k \in 1..Len(mTests) : BeginBefore(k)
    \/ \E k \in 1..Len(mTests) : BeginBody(k)
    \/ \E k \in 1..Len(mTests) : Resolve(k)
    \/ \E k \in 1..Len(mTests) : CallFixture(k)
    \/ \E k \in 1..Len(mTests) : OnceEnter(k)
    \/ \E k \in 1..Len(mTests) : OnceBody(k)
    \/ \E k \in 1..Len(mTests) : OnceCached(k)
    \/ \E k \in 1..Len(mTests), out \in HookOutcomes : CallHook(k, out)
    \/ \E k \in 1..Len(mTests) : EnterBody(k)
    \/ \E k \in 1..Len(mTests) : BodyRun(k)
    \/ \E k \in 1..Len(mTests) : BodyAddHook(k)
    \/ \E k \in 1..Len(mTests), out \in Outcomes : BodyReturn(k, out)
    \/ \E k \in 1..Len(mTests) : BeginAfter(k)
    \/ \E k \in 1..Len(mTests) : EndTest(k)
    \/ \E k \in 1..Len(mTests) : Return(k)

Spec == Init /\ [][Next]_vars

(***************************************************************************)
(* SpecReg: a free-form TestMain of at most MaxCalls registration calls.   *)
(***************************************************************************)
\* what a free-form TestMain may pass to Fixture and OnceFixture
FixtureArgs == {"nil", "notFunc", "fixtureProvideA", "onceFixtureProvideB",
                "fixtureTestingT", "fixtureHandlePair"}

\* the label lists a free-form TestMain may pass to Test
LabelArgs == {<<>>, <<"unit">>, <<"integration">>, <<"unit", "integration">>}

InitReg ==
    /\ InitEngine
    /\ main = <<>>
    /\ parallel = FALSE
    /\ NoParse

\* TestMain may make one more call
More == ncalls < MaxCalls /\ UNCHANGED main

NextReg ==
    \/ \E name \in Labels : More /\ TestLabel(name)
    \/ \E fn \in FixtureArgs : More /\ Fixture(fn)
    \/ \E fn \in FixtureArgs : More /\ OnceFixture(fn)
    \/ \E ls \in LabelArgs : More /\ Test("testFixture", ls)
    \/ Run /\ UNCHANGED main

SpecReg == InitReg /\ [][NextReg]_vars

(***************************************************************************)
(* SpecPar: the same TestMain programs with the top-level tests marked     *)
(* parallel, so that the host runs them concurrently.                      *)
(***************************************************************************)
\* two tests that both hand the once-fixture to their sub-tests, without
\* hooks; and two tests with one hook in each list, one of them adding hooks
ProgramsPar ==
    {LabelStmts \o <<FixA, FixC, OnceB>>
        \o <<TestStmt("testOnceFixture"), TestStmt("testOnceFixture"),
             MainStmt("Run", "", <<>>, NoHook)>>,
     LabelStmts \o <<FixA, FixC, OnceB>> \o HookStmts("BeforeTest", "before", 1)
        \o HookStmts("AfterTest", "after", 1)
        \o <<TestStmt("testFixture"), TestStmt("testAddsHooks"),
             MainStmt("Run", "", <<>>, NoHook)>>}

InitPar ==
    /\ InitEngine
    /\ main \in ProgramsPar
    /\ parallel = TRUE
    /\ NoParse

SpecPar == InitPar /\ [][Next]_vars

(***************************************************************************)
(* The generator's annotation parser (annotations/parser.go).  A string is *)
(* a sequence of one-character strings; a comment is the sequence of its   *)
(* lines, each an annotation (with or without a parenthesis and what is    *)
(* written in it) or other text.                                           *)
(***************************************************************************)
FixtureAnnotation == "@fixture"
OnceFixtureAnnotation == "@onceFixture"
TestAnnotation == "@test"
BeforeTestAnnotation == "@beforeTest"
AfterTestAnnotation == "@afterTest"
TestLabelAnnotation == "@testLabel"
DefaultTestLabelAnnotation == "@defaultTestLabel"

\* the string "test"
defaultTestLabel == <<"t", "e", "s", "t">>

\* the characters \w matches, and the upper-case letters among them
WordChars == {"u", "i", "t", "e", "s", "o", "p", "r", "f", "x", "F", "_"}
UpperChars == {"F"}

\* a line of a comment: `ann` alone, or `ann(raw)` when par
Line(ann, par, raw) == [ann |-> ann, par |-> par, raw |-> raw]

\* the expression \w+(?:,\s*\w+)* against all of raw from position i on;
\* st: "start" (a word must begin), "word" (inside one), "sep" (after a comma)
RECURSIVE ParamsMatch(_, _, _)
ParamsMatch(raw, i, st) ==
    IF i > Len(raw) THEN st = "word"
    ELSE CASE st = "start" -> raw[i] \in WordChars /\ ParamsMatch(raw, i + 1, "word")
           [] st = "word" -> IF raw[i] \in WordChars
                             THEN ParamsMatch(raw, i + 1, "word")
                             ELSE raw[i] = "," /\ ParamsMatch(raw, i + 1, "sep")
           [] OTHER -> IF raw[i] = " "
                       THEN ParamsMatch(raw, i + 1, "sep")
                       ELSE raw[i] \in WordChars /\ ParamsMatch(raw, i + 1, "word")

\* the three shapes of regular expression, as values
annotationRegexp(annotation) == [shape |-> "plain", ann |-> annotation]
annotationWithParamsRegexp(annotation) == [shape |-> "params", ann |-> annotation]
annotationWithOptionalParamsRegexp(annotation) == [shape |-> "optional", ann |-> annotation]

fixtureRegexp == annotationRegexp(FixtureAnnotation)
onceFixtureRegexp == annotationRegexp(OnceFixtureAnnotation)
testRegexp == annotationWithOptionalParamsRegexp(TestAnnotation)
beforeTestRegexp == annotationWithOptionalParamsRegexp(BeforeTestAnnotation)
afterTestRegexp == annotationWithOptionalParamsRegexp(AfterTestAnnotation)
testLabelRegexp == annotationWithParamsRegexp(TestLabelAnnotation)
defaultTestLabelRegexp == annotationWithParamsRegexp(DefaultTestLabelAnnotation)

\* the expression matches at this line: the annotation alone on its line,
\* with a well-formed parenthesis where the shape asks for or allows one
LineMatches(regex, line) ==
    /\ line.ann = regex.ann
    /\ CASE regex.shape = "plain" -> ~line.par
         [] regex.shape = "params" -> line.par /\ ParamsMatch(line.raw, 1, "start")
         [] OTHER -> line.par => ParamsMatch(line.raw, 1, "start")

\* regexp.MatchString
MatchString(regex, cmt) == \E j \in 1..Len(cmt) : LineMatches(regex, cmt[j])

\* regexp.FindStringSubmatch of a matching comment: the leftmost match, of
\* which the group is what its parenthesis holds (empty without one)
FindStringSubmatch(regex, cmt) ==
    LET j == CHOOSE m \in 1..Len(cmt) :
                 /\ LineMatches(regex, cmt[m])
                 /\ \A o \in 1..(m - 1) : ~LineMatches(regex, cmt[o])
    IN IF cmt[j].par THEN cmt[j].raw ELSE <<>>

\* strings.Split(str, ",")
RECURSIVE Split(_)
Split(str) ==
    IF \E j \in 1..Len(str) : str[j] = ","
    THEN LET j == CHOOSE m \in 1..Len(str) :
                     str[m] = "," /\ \A o \in 1..(m - 1) : str[o] # ","
         IN <<SubSeq(str, 1, j - 1)>> \o Split(SubSeq(str, j + 1, Len(str)))
    ELSE <<str>>

\* strings.TrimLeft and strings.TrimRight with a set of characters to cut
RECURSIVE TrimLeft(_, _)
TrimLeft(str, cut) ==
    IF str # <<>> /\ Head(str) \in cut THEN TrimLeft(Tail(str), cut) ELSE str

RECURSIVE TrimRight(_, _)
TrimRight(str, cut) ==
    IF str # <<>> /\ str[Len(str)] \in cut
    THEN TrimRight(SubSeq(str, 1, Len(str) - 1), cut)
    ELSE str

\* strings.TrimSpace
TrimSpace(str) == TrimRight(TrimLeft(str, {" "}), {" "})

\* getParams: the parameters of the leftmost match, or not ok without a match
\* (variant for comparison: the fields of the split taken as they are)
getParamsUntrimmed(regex, cmt) ==
    IF ~MatchString(regex, cmt)
    THEN [params |-> <<>>, ok |-> FALSE]
    ELSE LET g == FindStringSubmatch(regex, cmt) IN
         IF Len(g) > 0
         THEN [params |-> Split(g), ok |-> TRUE]
         ELSE [params |-> <<>>, ok |-> TRUE]
getParams(regex, cmt) ==
    IF ~MatchString(regex, cmt)
    THEN [params |-> <<>>, ok |-> FALSE]
    ELSE LET g == FindStringSubmatch(regex, cmt) IN
         IF Len(g) > 0
         THEN [params |-> [j \in 1..Len(Split(g)) |->
                              TrimSpace(TrimLeft(Split(g)[j], {","}))],
               ok |-> TRUE]
         ELSE [params |-> <<>>, ok |-> TRUE]

\* strings.HasPrefix
\* (variant for comparison: a prefix that must end where a word of the name
\* ends: at the end of the name, or before an underscore or upper-case letter)
HasPrefixAtBoundary(str, prefix) ==
    /\ Len(str) >= Len(prefix)
    /\ SubSeq(str, 1, Len(prefix)) = prefix
    /\ Len(str) > Len(prefix) => str[Len(prefix) + 1] \in UpperChars \cup {"_"}
HasPrefix(str, prefix) ==
    /\ Len(str) >= Len(prefix)
    /\ SubSeq(str, 1, Len(prefix)) = prefix

\* the map TestLabels: a function from label names to sequences of prefixes
SetKey(tl, label, prefixes) ==
    [l \in DOMAIN tl \cup {label} |-> IF l = label THEN prefixes ELSE tl[l]]

\* tl[label], nil without the key
Lookup(tl, label) == IF label \in DOMAIN tl THEN tl[label] ELSE <<>>

\* a Function is its index in parseResult.functions
Name(fn) == parseResult.functions[fn].name

Comment(fn) == parseResult.functions[fn].doc

commentMatches(fn, regex) == MatchString(regex, Comment(fn))

HasTestAnnotation(fn) == commentMatches(fn, testRegexp)
HasFixtureAnnotation(fn) == commentMatches(fn, fixtureRegexp)
HasOnceFixtureAnnotation(fn) == commentMatches(fn, onceFixtureRegexp)
HasBeforeTestAnnotation(fn) == commentMatches(fn, beforeTestRegexp)
HasAfterTestAnnotation(fn) == commentMatches(fn, afterTestRegexp)

LabelFunction(fn, ls) == [Function |-> fn, Labels |-> ls]

\* Parse, up to the loop over the comments
NewParseResult ==
    [pc |-> "comments", i |-> 1,
     DefaultTestLabel |-> defaultTestLabel,
     TestLabels |-> <<>>,
     Fixtures |-> <<>>, OnceFixtures |-> <<>>,
     Tests |-> <<>>, BeforeTests |-> <<>>, AfterTests |-> <<>>,
     Warnings |-> <<>>]

\* the @testLabel part of an iteration over the comments: [r |-> the result
\* so far, go |-> whether the iteration goes on]
ScanTestLabel(r, cmt) ==
    IF ~MatchString(testLabelRegexp, cmt) THEN [r |-> r, go |-> TRUE]
    ELSE LET p == getParams(testLabelRegexp, cmt) IN
         IF ~p.ok \/ Len(p.params) < 1
         THEN [r |-> [r EXCEPT !.Warnings = Append(@, TestLabelAnnotation)],
               go |-> FALSE]
         ELSE [r |-> [r EXCEPT !.TestLabels =
                         SetKey(@, p.params[1],
                                Lookup(r.TestLabels, p.params[1]) \o Tail(p.params))],
               go |-> TRUE]

\* the @defaultTestLabel part of an iteration over the comments
\* (variant for comparison: only the first declaration is taken)
ScanDefaultTestLabelFirstOnly(r, cmt) ==
    IF ~MatchString(defaultTestLabelRegexp, cmt) THEN r
    ELSE LET p == getParams(defaultTestLabelRegexp, cmt) IN
         IF ~p.ok \/ Len(p.params) > 1
         THEN [r EXCEPT !.Warnings = Append(@, DefaultTestLabelAnnotation)]
         ELSE IF r.DefaultTestLabel # defaultTestLabel THEN r
         ELSE [r EXCEPT !.DefaultTestLabel = p.params[1]]
ScanDefaultTestLabel(r, cmt) ==
    IF ~MatchString(defaultTestLabelRegexp, cmt) THEN r
    ELSE LET p == getParams(defaultTestLabelRegexp, cmt) IN
         IF ~p.ok \/ Len(p.params) > 1
         THEN [r EXCEPT !.Warnings = Append(@, DefaultTestLabelAnnotation)]
         ELSE [r EXCEPT !.DefaultTestLabel = p.params[1]]

\* the closure parseLabels: [labels, ok, tl |-> TestLabels afterwards]
\* (variant for comparison: labels that are not entered into TestLabels)
parseLabelsNotEntered(tl, regex, fn, defaultLabels) ==
    LET p == getParams(regex, Comment(fn)) IN
    IF ~p.ok THEN [labels |-> <<>>, ok |-> FALSE, tl |-> tl]
    ELSE IF Len(p.params) = 0 THEN [labels |-> defaultLabels, ok |-> TRUE, tl |-> tl]
    ELSE [labels |-> p.params, ok |-> TRUE, tl |-> tl]
parseLabels(tl, regex, fn, defaultLabels) ==
    LET p == getParams(regex, Comment(fn)) IN
    IF ~p.ok THEN [labels |-> <<>>, ok |-> FALSE, tl |-> tl]
    ELSE IF Len(p.params) = 0 THEN [labels |-> defaultLabels, ok |-> TRUE, tl |-> tl]
    ELSE [labels |-> p.params, ok |-> TRUE,
          tl |-> [l \in DOMAIN tl \cup ToSet(p.params) |-> Lookup(tl, l)]]

\* a case of the switch that takes labels: the function is appended to the
\* list of its role, or a warning is
Labelled(r, list, regex, annotation, fn) ==
    LET p == parseLabels(r.TestLabels, regex, fn, <<r.DefaultTestLabel>>) IN
    IF p.ok
    THEN [r EXCEPT ![list] = Append(@, LabelFunction(fn, p.labels)),
                   !.TestLabels = p.tl]
    ELSE [r EXCEPT !.Warnings = Append(@, annotation)]

\* the function carries one of the five annotations
Annotated(fn) ==
    \/ HasTestAnnotation(fn) \/ HasFixtureAnnotation(fn)
    \/ HasOnceFixtureAnnotation(fn)
    \/ HasBeforeTestAnnotation(fn) \/ HasAfterTestAnnotation(fn)

\* the switch of the loop over the functions
\* (variant for comparison: a switch that tests for @fixture first)
SwitchFixtureFirst(r, fn) ==
    CASE HasFixtureAnnotation(fn) -> [r EXCEPT !.Fixtures = Append(@, fn)]
      [] HasTestAnnotation(fn) -> Labelled(r, "Tests", testRegexp, TestAnnotation, fn)
      [] HasOnceFixtureAnnotation(fn) -> [r EXCEPT !.OnceFixtures = Append(@, fn)]
      [] HasBeforeTestAnnotation(fn) ->
            Labelled(r, "BeforeTests", beforeTestRegexp, BeforeTestAnnotation, fn)
      [] HasAfterTestAnnotation(fn) ->
            Labelled(r, "AfterTests", afterTestRegexp, AfterTestAnnotation, fn)
      [] OTHER -> r
Switch(r, fn) ==
    IF HasTestAnnotation(fn)
    THEN Labelled(r, "Tests", testRegexp, TestAnnotation, fn)
    ELSE IF HasFixtureAnnotation(fn)
    THEN [r EXCEPT !.Fixtures = Append(@, fn)]
    ELSE IF HasOnceFixtureAnnotation(fn)
    THEN [r EXCEPT !.OnceFixtures = Append(@, fn)]
    ELSE IF HasBeforeTestAnnotation(fn)
    THEN Labelled(r, "BeforeTests", beforeTestRegexp, BeforeTestAnnotation, fn)
    ELSE IF HasAfterTestAnnotation(fn)
    THEN Labelled(r, "AfterTests", afterTestRegexp, AfterTestAnnotation, fn)
    ELSE r

\* the orders in which a range over a map may visit the keys
Orders(keys) ==
    {q \in [1..Cardinality(keys) -> keys] :
        \A a, b \in 1..Cardinality(keys) : a # b => q[a] # q[b]}

\* auto grouping: the label of every prefix the name starts with, the labels
\* visited in order ord
RECURSIVE AutoLabels(_, _, _)
AutoLabels(tl, name, ord) ==
    IF ord = <<>> THEN <<>>
    ELSE LET Matches(prefix) == HasPrefix(name, prefix)
             n == Len(SelectSeq(tl[Head(ord)], Matches))
         IN [j \in 1..n |-> Head(ord)] \o AutoLabels(tl, name, Tail(ord))

\* Parse: one iteration of the loop over the comments
ScanComment ==
    /\ res.pc = "comments" /\ res.i <= Len(parseResult.comments)
    /\ LET cmt == parseResult.comments[res.i]
           a == ScanTestLabel(res, cmt)
           b == IF a.go THEN ScanDefaultTestLabel(a.r, cmt) ELSE a.r
       IN res' = [b EXCEPT !.i = res.i + 1]
    /\ UNCHANGED <<mode, main, ncalls, call, ret, regVars, runVars, parallel, parseResult>>

\* Parse: after the comments the default test label is made a key of TestLabels
EnsureDefaultTestLabel ==
    /\ res.pc = "comments" /\ res.i > Len(parseResult.comments)
    /\ res' = [res EXCEPT !.pc = "functions", !.i = 1,
                          !.TestLabels =
                              IF res.DefaultTestLabel \in DOMAIN res.TestLabels
                              THEN res.TestLabels
                              ELSE SetKey(res.TestLabels, res.DefaultTestLabel, <<>>)]
    /\ UNCHANGED <<mode, main, ncalls, call, ret, regVars, runVars, parallel, parseResult>>

\* Parse: an iteration of the loop over the functions that ends in the switch
ClassifyFunction ==
    /\ res.pc = "functions" /\ res.i <= Len(parseResult.functions)
    /\ Annotated(res.i)
    /\ res' = [Switch(res, res.i) EXCEPT !.i = res.i + 1]
    /\ UNCHANGED <<mode, main, ncalls, call, ret, regVars, runVars, parallel, parseResult>>

\* Parse: an iteration of the loop over the functions that gets past the
\* switch, to the auto grouping
AutoGroup ==
    /\ res.pc = "functions" /\ res.i <= Len(parseResult.functions)
    /\ ~Annotated(res.i)
    /\ \E ord \in Orders(DOMAIN res.TestLabels) :
          LET ls == AutoLabels(res.TestLabels, Name(res.i), ord) IN
          res' = [res EXCEPT !.i = res.i + 1,
                             !.Tests = IF Len(ls) > 0
                                       THEN Append(@, LabelFunction(res.i, ls))
                                       ELSE @]
    /\ UNCHANGED <<mode, main, ncalls, call, ret, regVars, runVars, parallel, parseResult>>

\* Parse returns the result
ParseReturn ==
    /\ res.pc = "functions" /\ res.i > Len(parseResult.functions)
    /\ res' = [res EXCEPT !.pc = "done"]
    /\ UNCHANGED <<mode, main, ncalls, call, ret, regVars, runVars, parallel, parseResult>>

(***************************************************************************)
(* SpecParse: Parse on small packages.                                     *)
(***************************************************************************)
Function(name, doc) == [name |-> name, doc |-> doc]

\* parsePackage: the function declarations, and every comment of the files,
\* the doc comments of the functions among them
parsePackage(cs, fns) ==
    LET NotEmpty(doc) == doc # <<>>
    IN [functions |-> fns,
        comments |-> cs \o SelectSeq([j \in 1..Len(fns) |-> fns[j].doc], NotEmpty)]

\* words written as parameters, and what is written between two of them
ParamWords == {<<"u">>, <<"i">>, <<"t">>}
Seps == {<<",">>, <<",", " ">>, <<" ", ",">>, <<" ">>}

\* what a parenthesis may hold: nothing, a word, or two words and a separator
Raws ==
    {<<>>} \cup ParamWords
    \cup {w \o sp \o x : w \in ParamWords, sp \in Seps, x \in ParamWords}

\* file-level comments: @testLabel(u), (u,t), (u, t), (i,t), (u,t,t), (i,ti)
\* and @defaultTestLabel(i), (u), (u,i), ()
FileComments ==
    {<<Line(TestLabelAnnotation, TRUE, r)>> :
        r \in {<<"u">>, <<"u", ",", "t">>, <<"u", ",", " ", "t">>, <<"i", ",", "t">>,
               <<"u", ",", "t", ",", "t">>, <<"i", ",", "t", "i">>}}
    \cup {<<Line(DefaultTestLabelAnnotation, TRUE, r)>> :
             r \in {<<"i">>, <<"u">>, <<"u", ",", "i">>, <<>>}}

CommentLists ==
    {<<>>} \cup {<<c>> : c \in FileComments}
    \cup {<<c, d>> : c \in FileComments, d \in FileComments}

\* function names: t, tF, t_, ti, o, pre, fix
Names == {<<"t">>, <<"t", "F">>, <<"t", "_">>, <<"t", "i">>, <<"o">>,
          <<"p", "r", "e">>, <<"f", "i", "x">>}

\* doc comments of one line: an annotation that takes labels, alone or with
\* a parenthesis
DirectiveDocs ==
    {<<Line(a, p, r)>> :
        a \in {TestAnnotation, BeforeTestAnnotation, AfterTestAnnotation},
        p \in BOOLEAN, r \in Raws} \ {<<Line(a, FALSE, r)>> :
        a \in {TestAnnotation, BeforeTestAnnotation, AfterTestAnnotation},
        r \in Raws \ {<<>>}}

\* lines of doc comments that mix annotations
RoleLines ==
    {Line(a, FALSE, <<>>) :
        a \in {TestAnnotation, FixtureAnnotation, OnceFixtureAnnotation,
               BeforeTestAnnotation, AfterTestAnnotation, "text"}}
    \cup {Line(TestAnnotation, TRUE, <<"u">>), Line(BeforeTestAnnotation, TRUE, <<"i">>),
          Line(FixtureAnnotation, TRUE, <<"u">>)}

\* doc comments of up to two lines, with an annotation at most once
RoleDocs ==
    {<<>>} \cup {<<l>> : l \in RoleLines}
    \cup {d \in {<<l, m>> : l \in RoleLines, m \in RoleLines} : d[1].ann # d[2].ann}

\* packages of one function with an annotation that takes labels
PkgDirective ==
    {parsePackage(cs, <<Function(n, d)>>) :
        cs \in {<<>>, <<<<Line(TestLabelAnnotation, TRUE, <<"u", ",", "t">>)>>>>,
                <<<<Line(DefaultTestLabelAnnotation, TRUE, <<"i">>)>>>>},
        n \in {<<"o">>, <<"t", "F">>},
        d \in DirectiveDocs}

\* packages of two functions, the first with any mix of annotations
PkgRoles ==
    {parsePackage(cs, <<Function(n, d), g>>) :
        cs \in {<<>>, <<<<Line(TestLabelAnnotation, TRUE, <<"u", ",", "t">>)>>>>},
        n \in {<<"o">>, <<"t", "F">>},
        d \in RoleDocs,
        g \in {Function(<<"t", "_">>, <<>>),
               Function(<<"o">>, <<Line(FixtureAnnotation, FALSE, <<>>)>>),
               Function(<<"o">>, <<Line(TestAnnotation, FALSE, <<>>)>>)}}

\* packages of one function without an annotation of its own, or with @test
PkgPrefix ==
    {parsePackage(cs, <<Function(n, d)>>) :
        cs \in CommentLists, n \in Names,
        d \in {<<>>, <<Line("text", FALSE, <<>>)>>,
               <<Line(TestLabelAnnotation, TRUE, <<"i", ",", "t">>)>>,
               <<Line(TestAnnotation, FALSE, <<>>)>>}}

Packages == PkgDirective \cup PkgRoles \cup PkgPrefix

\* what Parse is called with: a package and the flag autoLabel, which the
\* generator sets; the packages of the last kind are also parsed without it
ParseArgs ==
    {[functions |-> pk.functions, comments |-> pk.comments, autoLabel |-> TRUE] :
        pk \in Packages}
    \cup {[functions |-> pk.functions, comments |-> pk.comments, autoLabel |-> FALSE] :
             pk \in PkgPrefix}

InitParse ==
    /\ InitEngine
    /\ runLabels = newStringSet(Labels)
    /\ main = <<>>
    /\ parallel = FALSE
    /\ parseResult \in ParseArgs
    /\ res = NewParseResult

NextParse ==
    \/ ScanComment
    \/ EnsureDefaultTestLabel
    \/ ClassifyFunction
    \/ AutoGroup
    \/ ParseReturn

SpecParse == InitParse /\ [][NextParse]_vars

(***************************************************************************)
(* Observations on a run, used to state the properties.                    *)
(***************************************************************************)
\* every test and sub-test that is running or has just finished
Frames ==
    UNION {{stacks[k][d] : d \in 1..Len(stacks[k])} : k \in 1..Len(stacks)}

\* positions of a frame's log holding an event of one of the given kinds
EvAt(F, evs) == {e \in 1..Len(F.log) : F.log[e].ev \in evs}

\* parameter types of the function an event of the log is about
EvIn(F, e) == IF e.ev = "body" THEN FnIn(F.fn) ELSE HookIn(e.hook)

IsEngineEv(e) ==
    e.ev = "body" \/ (e.ev \in {"before", "after"} /\ e.hook.own = <<>>)

\* the engine-level hooks and the body in the order they were called
EngineTrace(F) ==
    LET q == SelectSeq(F.log, IsEngineEv)
    IN [j \in 1..Len(q) |-> <<q[j].ev, q[j].hook.id>>]

\* before-hooks in registration order, body, after-hooks in reverse order
ExpectedTrace ==
    [j \in 1..beforeLen |-> <<"before", j>>] \o <<<<"body", 0>>>>
    \o [j \in 1..afterLen |-> <<"after", afterLen - j + 1>>]

\* types whose provider is an ordinary fixture
OrdinaryTypes ==
    {ty \in FixtureTypes :
        ProviderOf(ty) # 0 /\ ~fixtures[IF ProviderOf(ty) = 0 THEN 1 ELSE ProviderOf(ty)].once}

\* C1: a test whose container was built, whose hooks all succeeded and whose
\* body was called has called the engine-level before-hooks in registration
\* order, then the body, then the engine-level after-hooks in reverse order
C1_HookOrder ==
    \A F \in Frames :
        (/\ F.pc = "done" /\ F.built /\ F.ended /\ F.i > F.n
         /\ EvAt(F, {"body"}) # {}
         /\ \A e \in EvAt(F, {"before", "after"}) : F.log[e].out = "ok")
        => EngineTrace(F) = ExpectedTrace

C3_OnceFixtureOnce ==
    \A p \in 1..Len(fixtures) :
        fixtures[p].once =>
           /\ nexec[p] <= 1
           /\ \A F \in Frames, ty \in ToSet(FnOut(fixtures[p].fn)) :
                 /\ F.cache[ty] # NoVal =>
                       /\ nexec[p] = 1
                       /\ F.cache[ty] = <<fixtures[p].fn, 1>>
                       /\ F.cache[ty] = onceSt[p].res
                 /\ \A e \in EvAt(F, {"body"}), j \in 1..Len(FnIn(F.fn)) :
                       FnIn(F.fn)[j] = ty => F.log[e].val[j] = <<fixtures[p].fn, 1>>
                 /\ \A a \in 1..Len(F.subgot) : \A j \in 1..Len(F.subgot[a].args) :
                       FnIn(F.subgot[a].fn)[j] = ty
                       => F.subgot[a].args[j] = <<fixtures[p].fn, 1>>

\* two tests running at the same time both hold the once-fixture's value, and
\* one of them has already passed it to both of its sub-tests
C3_Witness ==
    \E k1, k2 \in 1..Len(stacks) :
        /\ k1 # k2
        /\ \E d \in 1..Len(stacks[k1]) : stacks[k1][d].cache["B"] # NoVal
        /\ \E d \in 1..Len(stacks[k2]) :
              /\ Len(stacks[k2][d].subgot) = 2
              /\ stacks[k2][d].subgot[1].args # <<>>
              /\ stacks[k2][d].subgot[2].args # <<>>
              /\ stacks[k2][d].fn = "testOnceFixture"

\* C4: a call of Test appends the test to the host runner's list exactly when
\* its labels, the declared labels and the requested labels have a label in
\* common, and then with exactly the common labels; the host runner never
\* holds, and so never runs, a test without such a label
C4_TestRegistersIffLabelsMatch ==
    [][ /\ (call'.op = "Test" /\ ncalls' # ncalls) =>
             LET common == (ToSet(call'.labels) \cap labels) \cap runLabels
             IN IF common # {}
                THEN /\ Len(mTests') = Len(mTests) + 1
                     /\ SubSeq(mTests', 1, Len(mTests)) = mTests
                     /\ mTests'[Len(mTests')].fn = call'.fn
                     /\ ToSet(mTests'[Len(mTests')].labels) = common
                ELSE mTests' = mTests
        /\ call'.op # "Test" => mTests' = mTests
        /\ mode' = "run" => Len(stacks') = Len(mTests')
      ]_vars

C4_Witness ==
    /\ call.op = "Test"
    /\ Len(mTests) = 2
    /\ ToSet(mTests[2].labels) # ToSet(call.labels)
    /\ ncalls = MaxCalls

\* C5: a sub-test never holds a value of an ordinary fixture that its parent
\* holds; two sub-tests of one parent never received the same value of an
\* ordinary fixture; and a sub-test whose body was called executed each
\* ordinary fixture its body asks for once, in its own container
C5_OwnContainerPerSubTest ==
    /\ \A k \in 1..Len(stacks), ty \in OrdinaryTypes :
       \A d1, d2 \in 1..Len(stacks[k]) :
          (d1 < d2 /\ stacks[k][d1].cache[ty] # NoVal)
          => stacks[k][d1].cache[ty] # stacks[k][d2].cache[ty]
    /\ \A F \in Frames : \A a, b \in 1..Len(F.subgot) :
          a < b =>
             \A ja \in 1..Len(F.subgot[a].args), jb \in 1..Len(F.subgot[b].args) :
                (/\ FnIn(F.subgot[a].fn)[ja] \in OrdinaryTypes
                 /\ FnIn(F.subgot[a].fn)[ja] = FnIn(F.subgot[b].fn)[jb])
                => F.subgot[a].args[ja] # F.subgot[b].args[jb]
    /\ \A F \in Frames : \A e \in EvAt(F, {"body"}), j \in 1..Len(FnIn(F.fn)) :
          FnIn(F.fn)[j] \in OrdinaryTypes =>
             Cardinality({x \in EvAt(F, {"fixture"}) :
                             /\ F.log[x].val = F.log[e].val[j]
                             /\ FnIn(F.fn)[j] \in ToSet(FnOut(F.log[x].fn))}) = 1

C5_Witness ==
    \E F \in Frames :
        /\ F.fn = "testFixtureRenewed"
        /\ Len(F.subgot) = 2
        /\ F.subgot[1].args # <<>>
        /\ F.subgot[2].args # <<>>
        /\ nexec[ProviderOf("A")] = 2

\* the fixture-typed arguments that the hooks and the body of a frame were
\* called with, as pairs <<type, value>>
Received(F) ==
    UNION {{<<EvIn(F, F.log[e])[j], F.log[e].val[j]>> :
               j \in {x \in 1..Len(F.log[e].val) : EvIn(F, F.log[e])[x] \in FixtureTypes}} :
           e \in EvAt(F, {"before", "after", "body"})}

\* C6: in one container no fixture body is executed twice, and all hooks and
\* the body that asked for a type were called with one and the same value,
\* the one the container holds
C6_FixtureOncePerContainer ==
    \A F \in Frames :
        /\ \A x, y \in EvAt(F, {"fixture"}) : F.log[x].fn = F.log[y].fn => x = y
        /\ \A r \in Received(F) : r[2] # NoVal /\ r[2] = F.cache[r[1]]

\* a before-hook, the body and an after-hook of one test all asked for the
\* counter, which was executed once
C6_Witness ==
    \E F \in Frames :
        /\ F.pc = "done"
        /\ F.fn = "testInternalBeforeAndAfterTest"
        /\ \E e \in EvAt(F, {"before"}) : "C" \in ToSet(EvIn(F, F.log[e]))
        /\ \E e \in EvAt(F, {"after"}) : "C" \in ToSet(EvIn(F, F.log[e]))
        /\ EvAt(F, {"body"}) # {}
        /\ Cardinality({x \in EvAt(F, {"fixture"}) : F.log[x].fn = "fixturePrePostCounter"}) = 1

\* the value given to Fixture or OnceFixture is not a function
NotAFunction(arg) == arg \in {"nil", "notFunc"}

\* C7: Fixture and OnceFixture return ErrFixtureMustBeFunction for a value
\* that is not a function and ErrFixtureCannotProduceTestingTB for a function
\* with a result implementing testing.TB, leaving the fixture list as it was;
\* otherwise they append one provider and return nil; no registered fixture
\* produces a test-handle type
C7_FixtureRejects ==
    [][ /\ (call'.op \in {"Fixture", "OnceFixture"} /\ ncalls' # ncalls) =>
             IF NotAFunction(call'.fn)
             THEN ret' = "ErrFixtureMustBeFunction" /\ fixtures' = fixtures
             ELSE IF \E j \in 1..Len(FnOut(call'.fn)) : ImplementsTB(FnOut(call'.fn)[j])
             THEN ret' = "ErrFixtureCannotProduceTestingTB" /\ fixtures' = fixtures
             ELSE /\ ret' = "nil"
                  /\ Len(fixtures') = Len(fixtures) + 1
                  /\ SubSeq(fixtures', 1, Len(fixtures)) = fixtures
                  /\ fixtures'[Len(fixtures')].fn = call'.fn
        /\ \A p \in 1..Len(fixtures') :
              \A j \in 1..Len(FnOut(fixtures'[p].fn)) :
                 ~ImplementsTB(FnOut(fixtures'[p].fn)[j])
      ]_vars

\* a frame that has not called anything yet
AtStart(F) == F.built /\ F.pc = "start" /\ F.i = 1 /\ F.calls = <<>>

\* positions of the log where a hook of the given phase failed: it returned
\* an error, or one of its parameters has no provider
FailedAt(F, ev, pc) ==
    {e \in 1..Len(F.log) :
        \/ F.log[e].ev = ev /\ F.log[e].out = "err"
        \/ F.log[e].ev = "missing" /\ F.log[e].out = pc}

\* C8: a test whose container could not be built called nothing; a test one
\* of whose before-hooks failed called nothing after it, neither a before-hook
\* nor the body nor an after-hook, and never reached the running state; both
\* are failed, and the host runner or the parent is told so when they return
C8_SetupFailureAborts ==
    [][ \A k \in 1..Len(stacks) :
          (stacks[k] # <<>> /\ Len(stacks'[k]) = Len(stacks[k]) - 1) =>
             LET F == Top(k) IN
             (~F.built \/ FailedAt(F, "before", "start") # {}) =>
                /\ F.failed /\ ~F.running /\ ~F.ended
                /\ ~F.built => F.log = <<>>
                /\ \A e \in FailedAt(F, "before", "start") : e = Len(F.log)
                /\ EvAt(F, {"body", "after", "now"}) = {}
                /\ IF Len(stacks[k]) = 1
                   THEN results'[k] = "fail"
                   ELSE stacks'[k][Len(stacks'[k])].failed
      ]_vars

\* the first of several before-hooks failed
C8_Witness ==
    \E F \in Frames :
        /\ F.pc = "done" /\ F.built /\ F.n = MaxHooks
        /\ Len(F.log) = 1
        /\ F.log[1].ev = "before" /\ F.log[1].out = "err"

\* a frame returns: a failed after-hook was the last thing it called, and
\* the host runner or the parent is told of the failure
C9_Step ==
    \A k \in 1..Len(stacks) :
        (stacks[k] # <<>> /\ Len(stacks'[k]) = Len(stacks[k]) - 1) =>
           LET F == Top(k) IN
           FailedAt(F, "after", "end") # {} =>
              /\ F.failed
              /\ \A e \in FailedAt(F, "after", "end") : e = Len(F.log)
              /\ IF Len(stacks[k]) = 1
                 THEN results'[k] = "fail"
                 ELSE stacks'[k][Len(stacks'[k])].failed

\* whatever the results of the tests before it, the next test can start, and
\* a test that starts holds the engine's full hook lists
C9_OthersRun ==
    /\ \A k \in 1..Len(stacks) :
          (/\ mode = "run" /\ results[k] = "none" /\ stacks[k] = <<>>
           /\ \A j \in 1..(k - 1) : results[j] # "none")
          => ENABLED StartTest(k)
    /\ \A F \in Frames :
          AtStart(F) =>
             /\ Elems(F.bt, beforeArr) = SubSeq(beforeArr, 1, beforeLen)
             /\ Elems(F.at, afterArr) = SubSeq(afterArr, 1, afterLen)

\* C9: a test one of whose after-hooks failed called nothing after it and is
\* failed, and the host runner or the parent is told so when it returns; the
\* host runner still starts the other tests, with the full hook lists
C9_TeardownFailureStops == [][C9_Step]_vars /\ []C9_OthersRun

\* the last-registered after-hook of a test failed after the body, with an
\* earlier-registered one still to come
C9_Witness ==
    \E F \in Frames :
        /\ F.pc = "done" /\ F.n = MaxHooks /\ F.path = <<1>>
        /\ EvAt(F, {"body"}) # {}
        /\ Cardinality(EvAt(F, {"after"})) = 1
        /\ F.log[Len(F.log)].ev = "after" /\ F.log[Len(F.log)].out = "err"
        /\ Len(mTests) = 2

\* a sub-test with the frame of the test that runs it
SubTests ==
    UNION {{<<stacks[k][d - 1], stacks[k][d]>> : d \in 2..Len(stacks[k])} :
           k \in 1..Len(stacks)}

\* C10 as stated: a sub-test has the labels of its parent and starts with the
\* hook lists its parent's handle holds
C10_SubTestHasParentHooks ==
    \A ps \in SubTests :
        /\ ps[2].labels = ps[1].labels
        /\ AtStart(ps[2]) =>
              /\ Elems(ps[2].bt, beforeArr) = Elems(ps[1].bt, beforeArr)
              /\ Elems(ps[2].at, afterArr) = Elems(ps[1].at, afterArr)

\* C10, amended: a sub-test has the labels of its parent and starts with the
\* engine-level hook lists; no hook added through the parent's handle is
\* ever called for the sub-test
C10_SubTestHasEngineHooks ==
    \A ps \in SubTests :
        /\ ps[2].labels = ps[1].labels
        /\ AtStart(ps[2]) =>
              /\ Elems(ps[2].bt, beforeArr) = SubSeq(beforeArr, 1, beforeLen)
              /\ Elems(ps[2].at, afterArr) = SubSeq(afterArr, 1, afterLen)
        /\ \A e \in EvAt(ps[2], {"before", "after", "now"}) :
              ps[2].log[e].hook.own \in {<<>>, ps[2].path}

\* a sub-test has run its body and hooks while its parent holds an after-hook
\* added through the parent's handle
C10_Witness ==
    \E ps \in SubTests :
        /\ ps[2].pc = "done" /\ ps[2].ended /\ ~ps[2].failed
        /\ EvAt(ps[2], {"body"}) # {}
        /\ EvAt(ps[2], {"after"}) # {}
        /\ ps[1].at.len > afterLen
        /\ \E j \in 1..ps[1].at.len : At(ps[1].at, afterArr, j).own = ps[1].path

\* the positions of a body's script, already executed, that add a hook
AddedAt(F) ==
    {p \in 1..Len(Script(F.fn)) :
        /\ Script(F.fn)[p].op \in {"BeforeTest", "AfterTest"}
        /\ F.ip > p /\ F.pc \in {"inbody", "end", "done"}}

\* the closure a body passed at position p of its script
AddedHook(F, p) ==
    DynHook(F.path, IF Script(F.fn)[p].op = "BeforeTest" THEN "before" ELSE "after", p)

\* the hooks a handle holds in its two lists
Queued(F) == ToSet(Elems(F.bt, beforeArr)) \cup ToSet(Elems(F.at, afterArr))

\* C11 as stated: a hook a running body added through BeforeTest or AfterTest
\* was executed in place, at the call, and is in neither list of the handle
C11_RunningHookInvokedInPlace ==
    \A F \in Frames : \A p \in AddedAt(F) :
        /\ \E e \in EvAt(F, {"now"}) : F.log[e].hook = AddedHook(F, p)
        /\ AddedHook(F, p) \notin Queued(F)

\* a body calls BeforeTest or AfterTest on its handle: BeforeTest invokes the
\* closure at once and leaves the lists alone, AfterTest invokes nothing and
\* makes the closure the last element of the handle's after list
C11_Step ==
    \A k \in 1..Len(stacks) :
        (/\ stacks[k] # <<>> /\ Len(stacks'[k]) = Len(stacks[k])
         /\ InBody(Top(k)) /\ Top(k).ip <= Len(Script(Top(k).fn))
         /\ Script(Top(k).fn)[Top(k).ip].op \in {"BeforeTest", "AfterTest"}
         /\ stacks'[k][Len(stacks[k])].ip = Top(k).ip + 1) =>
           LET F == Top(k)
               G == stacks'[k][Len(stacks[k])]
               h == AddedHook(G, F.ip)
           IN IF h.kind = "before"
              THEN /\ G.log = Append(F.log, Ev("now", h, "", <<>>, "ok"))
                   /\ G.bt = F.bt /\ G.at = F.at
                   /\ beforeArr' = beforeArr /\ afterArr' = afterArr
              ELSE /\ G.log = F.log
                   /\ G.bt = F.bt /\ beforeArr' = beforeArr
                   /\ G.at.len = F.at.len + 1
                   /\ At(G.at, afterArr', G.at.len) = h

\* hooks run in place are before-hooks of a running test and are in no list;
\* an after-hook added through a handle is called only once the test has ended
C11_Timing ==
    \A F \in Frames :
        /\ \A e \in EvAt(F, {"now"}) :
              /\ F.log[e].hook.kind = "before" /\ F.running
              /\ F.log[e].hook \notin Queued(F)
              /\ \E b \in EvAt(F, {"body", "fixture"}) : b < e
        /\ \A e \in EvAt(F, {"after"}) :
              F.log[e].hook.own # <<>> =>
                 /\ F.ended
                 /\ \E b \in EvAt(F, {"body"}) : b < e
        /\ \A p \in AddedAt(F) :
              AddedHook(F, p).kind = "before" =>
                 \E e \in EvAt(F, {"now"}) : F.log[e].hook = AddedHook(F, p)

\* C11, amended: a before-hook added through the handle of a running test is
\* executed at once, in place, and not queued; an after-hook added through the
\* handle is always appended to the handle's list and is called only when the
\* test ends
C11_BeforeInPlaceAfterQueued == [][C11_Step]_vars /\ []C11_Timing

\* a test whose body added a before-hook, run in place, and an after-hook,
\* called by onEnd after the body
C11_Witness ==
    \E F \in Frames :
        /\ F.pc = "done" /\ AddedAt(F) # {}
        /\ \E e \in EvAt(F, {"now"}), b \in EvAt(F, {"body"}), a \in EvAt(F, {"after"}) :
              /\ b < e /\ e < a
              /\ F.log[e].hook.id > 0
              /\ F.log[a].hook.own = F.path /\ F.log[a].hook.id > 0

\* C12: the hook lists of a handle are its own: every entry of a handle's
\* lists is an engine-level hook or a hook added through that very handle,
\* and the engine-level lists hold engine-level hooks only
C12_HandleListsOwned ==
    /\ \A F \in Frames :
          /\ \A j \in 1..F.bt.len : At(F.bt, beforeArr, j).own \in {<<>>, F.path}
          /\ \A j \in 1..F.at.len : At(F.at, afterArr, j).own \in {<<>>, F.path}
    /\ \A j \in 1..beforeLen : beforeArr[j].own = <<>>
    /\ \A j \in 1..afterLen : afterArr[j].own = <<>>

\* C13: Run warns whenever the requested labels select none of the tests
\* TestMain handed to Test: a Run that follows a call of Test and finds no
\* test registered emits the warning
C13_WarnsWhenNoTestSelected ==
    [][(call.op = "Test" /\ call'.op = "Run" /\ mTests' = <<>>) => warned']_vars

\* C14: once Run was called the run is on; the warning was emitted exactly
\* when no requested label is a declared one, and then no test is registered
C14_WarnsIffLabelsDisjoint ==
    call.op = "Run" =>
       /\ mode = "run"
       /\ warned <=> (Intersect(runLabels, labels) = {})
       /\ warned => mTests = <<>>

\* Run warned although labels were declared and Test was called
C14_Witness ==
    /\ mode = "run" /\ warned
    /\ labels # {} /\ ncalls = MaxCalls + 1
    /\ stacks = <<>>

\* pairs of registered fixtures, the earlier first, that produce a common type
SameTypeFixtures ==
    {ij \in (1..Len(fixtures)) \X (1..Len(fixtures)) :
        /\ ij[1] < ij[2]
        /\ ToSet(FnOut(fixtures[ij[1]].fn)) \cap ToSet(FnOut(fixtures[ij[2]].fn)) # {}}

\* C15: when two registered fixtures produce the same type, the container of
\* every test is built all the same, the later-registered fixture provides
\* the type, and the body of the earlier one is never invoked
C15_LaterFixtureShadows ==
    \A ij \in SameTypeFixtures :
        /\ \A F \in Frames : F.built
        /\ nexec[ij[1]] = 0

\* the fixtures a function's parameters are resolved from, directly or not
FixturesNeeded(fn) ==
    Reach(fixtures,
          {j \in 1..Len(fixtures) : ToSet(FnIn(fn)) \cap ToSet(FnOut(fixtures[j].fn)) # {}},
          Len(fixtures))

\* C16: a dependency cycle among the fixtures is fatal only for a test whose
\* resolution needs a fixture of the cycle: the container of a test that
\* needs none of them is built and the test runs
C16_CycleFatalOnlyForDependents ==
    \A F \in Frames :
        (OnCycle(fixtures) # {} /\ FixturesNeeded(F.fn) \cap OnCycle(fixtures) = {})
           => F.built

(***************************************************************************)
(* Observations on a parse, used to state the properties.                  *)
(***************************************************************************)
\* the words of a string: its maximal runs of word characters
WordsIn(str) ==
    {SubSeq(str, ab[1], ab[2]) :
        ab \in {x \in (1..Len(str)) \X (1..Len(str)) :
                   /\ x[1] <= x[2]
                   /\ \A j \in x[1]..x[2] : str[j] \in WordChars
                   /\ x[1] > 1 => str[x[1] - 1] \notin WordChars
                   /\ x[2] < Len(str) => str[x[2] + 1] \notin WordChars}}

\* the word a string begins with
FirstWordOf(str) ==
    {SubSeq(str, 1, b) : b \in {x \in 1..Len(str) :
                                   /\ \A j \in 1..x : str[j] \in WordChars
                                   /\ x < Len(str) => str[x + 1] \notin WordChars}}

\* the lines of a function's doc comment that are a well-formed `ann(...)`
ParamLines(fn, ann) ==
    {j \in 1..Len(Comment(fn)) :
        /\ Comment(fn)[j].ann = ann /\ Comment(fn)[j].par
        /\ ParamsMatch(Comment(fn)[j].raw, 1, "start")}

\* the labels some comment declares with a well-formed @testLabel(label, ...)
DeclaredLabels ==
    UNION {UNION {FirstWordOf(parseResult.comments[c][j].raw) :
                     j \in {m \in 1..Len(parseResult.comments[c]) :
                               LineMatches(testLabelRegexp, parseResult.comments[c][m])}} :
           c \in 1..Len(parseResult.comments)}

\* the lists of registrations that carry labels, with their annotations
LabelLists ==
    {<<"Tests", TestAnnotation>>, <<"BeforeTests", BeforeTestAnnotation>>,
     <<"AfterTests", AfterTestAnnotation>>}

\* the registrations of a list
Entries(list) == {res[list][j] : j \in 1..Len(res[list])}

\* C17: a function with a well-formed @test(l1, ..., ln) is registered as a
\* test; a registration made from a well-formed @test(...), @beforeTest(...)
\* or @afterTest(...) has exactly the labels written in the parenthesis,
\* without the white space around them, and each of them is a key of
\* TestLabels, with no prefixes unless a @testLabel declared it
C17_ExplicitLabels ==
    res.pc = "done" =>
       /\ \A fn \in 1..Len(parseResult.functions) :
             ParamLines(fn, TestAnnotation) # {} =>
                \E e \in Entries("Tests") : e.Function = fn
       /\ \A la \in LabelLists : \A e \in Entries(la[1]) :
             \A j \in ParamLines(e.Function, la[2]) :
                /\ ToSet(e.Labels) = WordsIn(Comment(e.Function)[j].raw)
                /\ \A l \in ToSet(e.Labels) :
                      /\ l \in DOMAIN res.TestLabels
                      /\ l \notin DeclaredLabels \cup {res.DefaultTestLabel}
                            => res.TestLabels[l] = <<>>

\* a test registered from @test(a, b) with a blank after the comma, one of
\* the two labels declared nowhere else
C17_Witness ==
    /\ res.pc = "done"
    /\ \E e \in Entries("Tests") : \E j \in ParamLines(e.Function, TestAnnotation) :
          /\ " " \in ToSet(Comment(e.Function)[j].raw)
          /\ Cardinality(ToSet(e.Labels)) > 1
          /\ \E l \in ToSet(e.Labels) : l \notin DeclaredLabels \cup {res.DefaultTestLabel}

\* C18: after Parse the default test label and every label of every test,
\* before-test and after-test registration are keys of TestLabels
C18_LabelsAreKeys ==
    res.pc = "done" =>
       /\ res.DefaultTestLabel \in DOMAIN res.TestLabels
       /\ \A la \in LabelLists : \A e \in Entries(la[1]) :
             ToSet(e.Labels) \subseteq DOMAIN res.TestLabels

\* a hook registered with a label no comment declares, after a
\* @defaultTestLabel changed the default
C18_Witness ==
    /\ res.pc = "done"
    /\ res.DefaultTestLabel # defaultTestLabel
    /\ \E e \in Entries("BeforeTests") \cup Entries("AfterTests") :
          \E l \in ToSet(e.Labels) : l \notin DeclaredLabels \cup {res.DefaultTestLabel}

\* how often a function is in a list
Occurs(list, fn) ==
    Cardinality({j \in 1..Len(res[list]) :
                    IF list \in {"Fixtures", "OnceFixtures"}
                    THEN res[list][j] = fn
                    ELSE res[list][j].Function = fn})

\* the roles in the order of the switch: does the function carry the
\* annotation, and the list of the role
RoleOrder(fn) ==
    <<[has |-> HasTestAnnotation(fn), list |-> "Tests"],
      [has |-> HasFixtureAnnotation(fn), list |-> "Fixtures"],
      [has |-> HasOnceFixtureAnnotation(fn), list |-> "OnceFixtures"],
      [has |-> HasBeforeTestAnnotation(fn), list |-> "BeforeTests"],
      [has |-> HasAfterTestAnnotation(fn), list |-> "AfterTests"]>>

\* str begins with prefix
StartsWith(str, prefix) ==
    \A j \in 1..Len(prefix) : j <= Len(str) /\ str[j] = prefix[j]

\* the labels with a prefix the name begins with
PrefixLabels(name) ==
    {l \in DOMAIN res.TestLabels :
        \E j \in 1..Len(res.TestLabels[l]) : StartsWith(name, res.TestLabels[l][j])}

\* C19: after Parse a function is in the list of the first annotation, in the
\* order @test, @fixture, @onceFixture, @beforeTest, @afterTest, that its
\* comment carries, once, and in no other list; a function without any of
\* them is in no list but that of the tests, there at most once, and there
\* exactly when its name begins with a prefix of some label
C19_OneRolePerFunction ==
    res.pc = "done" =>
       \A fn \in 1..Len(parseResult.functions) :
          LET ro == RoleOrder(fn)
              first == {k \in 1..Len(ro) : ro[k].has /\ \A o \in 1..(k - 1) : ~ro[o].has}
          IN /\ \A k \in 1..Len(ro) :
                   Occurs(ro[k].list, fn) =
                      IF k \in first \/ (first = {} /\ ro[k].list = "Tests"
                                         /\ PrefixLabels(Name(fn)) # {})
                      THEN 1 ELSE 0
             /\ first # {} =>
                   \A e \in Entries("Tests") :
                      (e.Function = fn /\ ParamLines(fn, TestAnnotation) = {})
                         => e.Labels = <<res.DefaultTestLabel>>

\* a function whose comment says @fixture and then @test, and whose name
\* begins with a prefix, is registered as a test only
C19_Witness ==
    /\ res.pc = "done"
    /\ \E fn \in 1..Len(parseResult.functions) :
          /\ Len(Comment(fn)) > 1
          /\ Comment(fn)[1].ann = FixtureAnnotation
          /\ HasFixtureAnnotation(fn) /\ HasTestAnnotation(fn)
          /\ PrefixLabels(Name(fn)) # {}
          /\ Occurs("Tests", fn) = 1 /\ Occurs("Fixtures", fn) = 0

\* the registrations auto grouping made
AutoGrouped == {e \in Entries("Tests") : ~Annotated(e.Function)}

\* C20 as stated: a function is auto-matched to a label only through a
\* prefix its name begins with and that ends where the name ends or before
\* an underscore or an upper-case letter
C20_PrefixEndsAtWordBoundary ==
    res.pc = "done" =>
       \A e \in AutoGrouped : \A l \in ToSet(e.Labels) :
          \E j \in 1..Len(res.TestLabels[l]) :
             LET prefix == res.TestLabels[l][j]
                 name == Name(e.Function)
             IN /\ StartsWith(name, prefix)
                /\ Len(name) > Len(prefix) =>
                      name[Len(prefix) + 1] \in UpperChars \cup {"_"}

\* C20, amended: a function without annotation is auto-matched to exactly the
\* labels that have a prefix its name begins with, whatever follows the
\* prefix in the name
C20_PrefixIsPlain ==
    res.pc = "done" =>
       \A fn \in 1..Len(parseResult.functions) :
          ~Annotated(fn) =>
             /\ PrefixLabels(Name(fn)) # {} => \E e \in AutoGrouped : e.Function = fn
             /\ \A e \in AutoGrouped :
                   e.Function = fn => ToSet(e.Labels) = PrefixLabels(Name(fn))

\* the function ti is auto-matched through the prefix t, which a lower-case
\* letter follows in its name
C20_Witness ==
    /\ res.pc = "done"
    /\ \E e \in AutoGrouped :
          /\ Name(e.Function) = <<"t", "i">>
          /\ e.Labels = <<<<"u">>>>
          /\ res.TestLabels[<<"u">>] = <<<<"t">>>>

\* the name prefixes the documentation gives a role to, with the list of the role
RolePrefixes ==
    {[prefix |-> <<"p", "r", "e">>, list |-> "BeforeTests"],
     [prefix |-> <<"b", "e", "f", "o", "r", "e", "T", "e", "s", "t">>, list |-> "BeforeTests"],
     [prefix |-> <<"p", "o", "s", "t">>, list |-> "AfterTests"],
     [prefix |-> <<"a", "f", "t", "e", "r", "T", "e", "s", "t">>, list |-> "AfterTests"],
     [prefix |-> <<"f", "i", "x">>, list |-> "Fixtures"],
     [prefix |-> <<"f", "i", "x", "t", "u", "r", "e">>, list |-> "Fixtures"]}

\* C21: when Parse is called with autoLabel, a function without an annotation
\* whose name begins with pre or beforeTest is registered as a before-hook,
\* with post or afterTest as an after-hook, with fix or fixture as a fixture
C21_RolePrefixGivesRole ==
    (res.pc = "done" /\ parseResult.autoLabel) =>
       \A fn \in 1..Len(parseResult.functions) :
          ~Annotated(fn) =>
             \A rp \in RolePrefixes :
                StartsWith(Name(fn), rp.prefix) => Occurs(rp.list, fn) = 1

\* C22: when Parse is called without autoLabel, a function without an
\* annotation is in none of the lists of the result, whatever its name and
\* whatever prefixes the labels declare
C22_NoAutoLabelIgnoresPlainFunctions ==
    (res.pc = "done" /\ ~parseResult.autoLabel) =>
       \A fn \in 1..Len(parseResult.functions) :
          ~Annotated(fn) =>
             \A list \in {"Tests", "BeforeTests", "AfterTests", "Fixtures", "OnceFixtures"} :
                Occurs(list, fn) = 0

\* C23: a function without an annotation is registered as a test exactly when
\* its name begins with a prefix of some declared label, then once, and its
\* labels are the labels with such a prefix, each of them once
C23_AutoGroupedOnceWithEachLabelOnce ==
    (res.pc = "done" /\ parseResult.autoLabel) =>
       \A fn \in 1..Len(parseResult.functions) :
          ~Annotated(fn) =>
             /\ Occurs("Tests", fn) = (IF PrefixLabels(Name(fn)) # {} THEN 1 ELSE 0)
             /\ \A e \in Entries("Tests") :
                   e.Function = fn =>
                      /\ ToSet(e.Labels) = PrefixLabels(Name(fn))
                      /\ Len(e.Labels) = Cardinality(PrefixLabels(Name(fn)))

\* the well-formed @defaultTestLabel(...) lines of a comment
DefaultLines(c) ==
    {j \in 1..Len(parseResult.comments[c]) :
        LineMatches(defaultTestLabelRegexp, parseResult.comments[c][j])}

\* the number of parameters a well-formed parenthesis holds
NParams(raw) == Cardinality({j \in 1..Len(raw) : raw[j] = ","}) + 1

\* the parenthesis of the first @defaultTestLabel(...) line of a comment
DefaultRaw(c) ==
    parseResult.comments[c][CHOOSE j \in DefaultLines(c) :
                                \A k \in DefaultLines(c) : j <= k].raw

\* the comments that declare a default label with one parameter, and those
\* that give more than one
DefaultDeclared == {c \in 1..Len(parseResult.comments) :
                       DefaultLines(c) # {} /\ NParams(DefaultRaw(c)) = 1}
DefaultRejected == {c \in 1..Len(parseResult.comments) :
                       DefaultLines(c) # {} /\ NParams(DefaultRaw(c)) > 1}

\* the default label the comments ask for: that of the last declaration
ExpectedDefault ==
    IF DefaultDeclared = {} THEN defaultTestLabel
    ELSE LET c == CHOOSE x \in DefaultDeclared : \A y \in DefaultDeclared : y <= x
         IN CHOOSE w \in FirstWordOf(DefaultRaw(c)) : TRUE

MalformedLines(cmt, ann) ==
    {j \in 1..Len(cmt) :
        cmt[j].ann = ann /\ cmt[j].par /\ ~ParamsMatch(cmt[j].raw, 1, "start")}

\* C25: a function whose only directive is a @test, @beforeTest or @afterTest
\* with a malformed parenthesis leaves a warning about it and is in none of
\* Tests, BeforeTests, AfterTests; a comment whose only declaration is a
\* malformed @testLabel or @defaultTestLabel leaves a warning about it
C25_MalformedDirectiveWarns ==
    res.pc = "done" =>
       /\ \A fn \in 1..Len(parseResult.functions) : \A la \in LabelLists :
             (MalformedLines(Comment(fn), la[2]) # {} /\ ~Annotated(fn)) =>
                /\ la[2] \in ToSet(res.Warnings)
                /\ \A lb \in LabelLists : Occurs(lb[1], fn) = 0
       /\ \A c \in 1..Len(parseResult.comments) :
             \A a \in {TestLabelAnnotation, DefaultTestLabelAnnotation} :
                MalformedLines(parseResult.comments[c], a) # {} =>
                   a \in ToSet(res.Warnings)

\* the tests after the grouping of function fn when the labels are visited
\* in order ord
GroupedTests(fn, ord) ==
    LET ls == AutoLabels(res.TestLabels, Name(fn), ord) IN
    IF Len(ls) > 0 THEN Append(res.Tests, LabelFunction(fn, ls)) ELSE res.Tests

\* C26: Parse is a function of the sources: where an iteration of the loop
\* over the functions groups a function without annotation, the tests it
\* leaves are those that every order of visiting the labels leaves, so that
\* two runs over the same package end with the same lists
C26_ParseIsDeterministic ==
    [][(res.pc = "functions" /\ res.i <= Len(parseResult.functions) /\ ~Annotated(res.i)) =>
          \A ord \in Orders(DOMAIN res.TestLabels) :
             res'.Tests = GroupedTests(res.i, ord)]_vars

\* the closures that were passed to BeforeTest of a handle: by the counter
\* fixture when it was instantiated for the handle, and by the body
PassedToBeforeTest(F) ==
    {DynHook(F.path, "before", 0) : e \in {x \in EvAt(F, {"fixture"}) :
                                             F.log[x].fn = "fixturePrePostCounter"}}
    \cup {AddedHook(F, p) : p \in {x \in AddedAt(F) :
                                      Script(F.fn)[x].op = "BeforeTest"}}

\* C27: in a test that got to its body and is finished, every closure passed
\* to BeforeTest of its handle was invoked exactly once, whether it was passed
\* while onStart was at work or later
C27_BeforeHookInvokedOnce ==
    \A F \in Frames :
        (F.pc = "done" /\ F.ended) =>
           \A h \in PassedToBeforeTest(F) :
              Cardinality({e \in EvAt(F, {"before", "now"}) : F.log[e].hook = h}) = 1

\* the hooks onEnd invoked, in the order of the calls
AfterCalls(F) ==
    LET IsAfter(e) == e.ev = "after"
        q == SelectSeq(F.log, IsAfter)
    IN [j \in 1..Len(q) |-> q[j].hook]

\* a list from its last element to its first
Reversed(q) == [j \in 1..Len(q) |-> q[Len(q) - j + 1]]

\* C28: when onEnd has returned without an error, the after-hooks it invoked
\* are the elements of the handle's after list as it stands then, each once,
\* from the last added to the first, hooks added during onEnd included
C28_TeardownIsStack ==
    \A F \in Frames :
        (/\ F.pc = "done" /\ F.ended /\ F.i > F.n
         /\ \A e \in EvAt(F, {"after"}) : F.log[e].out = "ok")
        => AfterCalls(F) = Reversed(Elems(F.at, afterArr))

\* T.Labels: the labels the handle was created with
TLabels(F) == F.labels

\* T.HasLabel: the label is one of them
\* (variant for comparison: only the first label is looked at)
HasLabelFirstOnly(F, label) == F.labels # <<>> /\ F.labels[1] = label
HasLabel(F, label) == \E j \in 1..Len(F.labels) : F.labels[j] = label

\* the labels Test was given for the k-th registered test that are declared
\* and requested
SelectedLabels(k) ==
    ToSet(TestLabelsOf(mTests[k].fn)) \cap labels \cap runLabels

\* C29: the handle of every test and sub-test reports a non-empty list of
\* labels, without repetition, holding exactly the labels given to Test for
\* its top-level test that are declared and requested; HasLabel is true of
\* these labels and of no other; a sub-test reports what its top-level test
\* reports
C29_HandleLabels ==
    \A k \in 1..Len(stacks) : \A d \in 1..Len(stacks[k]) :
        LET F == stacks[k][d] IN
        /\ TLabels(F) # <<>>
        /\ ToSet(TLabels(F)) = SelectedLabels(k)
        /\ Len(TLabels(F)) = Cardinality(SelectedLabels(k))
        /\ \A l \in Labels \cup {"regression"} : HasLabel(F, l) <=> l \in SelectedLabels(k)
        /\ TLabels(F) = TLabels(stacks[k][1])

\* a running sub-test of a test that was selected through two labels
C29_Witness ==
    \E k \in 1..Len(stacks) :
        /\ Len(stacks[k]) = 2
        /\ stacks[k][2].running /\ stacks[k][2].pc = "inbody"
        /\ Len(TLabels(stacks[k][2])) = 2
        /\ Len(TestLabelsOf(mTests[k].fn)) = 2

\* C30, the calls of TestMain: a Test call registers the test exactly when one
\* of its labels is requested and declared at that moment; no other call
\* registers a test, so a label declared later selects nothing; Fixture,
\* OnceFixture, BeforeTest and AfterTest extend the engine's lists also when
\* tests are registered already
C30_Step ==
    (mode = "reg" /\ main # <<>> /\ main' = Tail(main)) =>
       LET st == Head(main) IN
       /\ st.op = "Test" =>
             (Len(mTests') = Len(mTests) + 1
                <=> (ToSet(st.labels) \cap labels) \cap runLabels # {})
       /\ st.op # "Test" => mTests' = mTests
       /\ st.op \in {"Fixture", "OnceFixture"} =>
             (Len(fixtures') = Len(fixtures) + 1 /\ fixtures'[Len(fixtures')].fn = st.fn)
       /\ st.op = "BeforeTest" =>
             (beforeLen' = beforeLen + 1 /\ beforeArr'[beforeLen'] = st.hook)
       /\ st.op = "AfterTest" =>
             (afterLen' = afterLen + 1 /\ afterArr'[afterLen'] = st.hook)

\* main is what is left of program p
IsSuffix(p) ==
    Len(main) <= Len(p) /\ main = SubSeq(p, Len(p) - Len(main) + 1, Len(p))

\* C30, the run: a test starts with all the hooks the engine holds, and its
\* body got each fixture value from the constructor the engine holds for the
\* type, whenever they were registered; and in a generated TestMain no
\* TestLabel call is left once Test was called
C30_Applies ==
    /\ \A k \in 1..Len(stacks) :
          (stacks[k] # <<>> /\ AtStart(stacks[k][1])) =>
             /\ Elems(stacks[k][1].bt, beforeArr) = [j \in 1..beforeLen |-> EngHook("before", j)]
             /\ Elems(stacks[k][1].at, afterArr) = [j \in 1..afterLen |-> EngHook("after", j)]
    /\ \A F \in Frames : \A e \in EvAt(F, {"body"}) :
          \A j \in 1..Len(FnIn(F.fn)) :
             FnIn(F.fn)[j] \notin SeedTypes =>
                /\ ProviderOf(FnIn(F.fn)[j]) # 0
                /\ F.log[e].val[j] # NoVal
                /\ F.log[e].val[j][1] = fixtures[ProviderOf(FnIn(F.fn)[j])].fn
    /\ (mode = "reg" /\ call.op = "Test" /\ \E p \in GeneratedPrograms : IsSuffix(p)) =>
          \A j \in 1..Len(main) : main[j].op # "TestLabel"

\* C30: selection is decided when Test is called, against the labels declared
\* until then; fixtures and engine-level hooks registered after the Test call
\* apply when the test runs; the generator puts the TestLabel calls first
C30_SelectionAtTestCall == [][C30_Step]_vars /\ []C30_Applies

\* a TestMain that called Test before it declared `integration` and before it
\* registered the counter fixture and the hooks: testFixture is not selected
\* although integration is requested, and the selected test ran with the
\* hooks and the fixture
C30_Witness ==
    /\ mode = "run" /\ Len(mTests) = 1
    /\ "integration" \in labels \cap runLabels
    /\ \E F \in Frames :
          /\ F.fn = "testInternalBeforeAndAfterTest" /\ F.pc = "done"
          /\ \E b \in EvAt(F, {"before"}), e \in EvAt(F, {"body"}), a \in EvAt(F, {"after"}) :
                /\ b < e /\ e < a
                /\ F.log[b].hook = EngHook("before", 1)
                /\ F.log[a].hook = EngHook("after", 1)
                /\ F.log[e].val[2][1] = "fixturePrePostCounter"

====
